---- MODULE Spec2Model ----
(***************************************************************************)
(* The multi-factor recall-prediction engine of                            *)
(* taiwan_recall_prediction/dashboard.py: the six estimator agents and     *)
(* MasterAnalysisAgent.predict.                                            *)
(*                                                                         *)
(* Numbers.  Python floats are modelled as fixed-point decimals with four  *)
(* fractional digits: the float 1.0 is the integer Scale, 0.95 is 9500.    *)
(* A product of two such numbers is floored to four digits (Mul), as a     *)
(* float product is rounded to 53 bits.  Percentages (turnout, agreement)  *)
(* are in the same unit: 25% is 25 * Scale.                                *)
(*                                                                         *)
(* Strings.  A Python str is a sequence of characters; each Chinese        *)
(* character is written as its pinyin (made unique where two characters    *)
(* share a reading), so that `in` (substring) and split() are computed on  *)
(* the characters as the code computes them.                               *)
(***************************************************************************)
EXTENDS Integers, Sequences, FiniteSets, TLC

VARIABLES pc, scenario_data, agent_results, predicted_turnout,
          predicted_agreement, verdict, calls, first_return, error, direct,
          session_state, returned

vars == <<pc, scenario_data, agent_results, predicted_turnout,
          predicted_agreement, verdict, calls, first_return, error, direct,
          session_state, returned>>

\* the state of one predict call and of its caller
engine_vars == <<pc, scenario_data, agent_results, predicted_turnout,
                 predicted_agreement, verdict, calls, first_return, error, direct>>

\* st.session_state of the dashboard and what its last handler returned
app_vars == <<session_state, returned>>

-----------------------------------------------------------------------------
(* Fixed-point arithmetic *)

Scale == 10 ^ 4

\* floor(a * b / Scale), computed without leaving 32 bits
Mul(a, b) == (a \div Scale) * b + ((a % Scale) * b) \div Scale

\* floor(a / b) of two fixed-point numbers, as a fixed-point number
Div(a, b) == (a * Scale) \div b

Max(a, b) == IF a >= b THEN a ELSE b

Min(a, b) == IF a <= b THEN a ELSE b

\* a percentage n% in fixed point
Pct(n) == n * Scale

\* f"{x:.1f}": x rounded to one decimal, in tenths
Format1f(x) == (x + Scale \div 20) \div (Scale \div 10)

-----------------------------------------------------------------------------
(* Strings *)

\* Python's None where a str is expected
None == <<"<None>">>

\* name in target (substring test of str.__contains__)
Contains(target, name) ==
    \E i \in 0..(Len(target) - Len(name)) :
        SubSeq(target, i + 1, i + Len(name)) = name

RECURSIVE SplitFrom(_, _, _)
\* str.split(): the maximal runs of non-blank characters, left to right
SplitFrom(s, i, cur) ==
    IF i > Len(s)
    THEN IF cur = <<>> THEN <<>> ELSE <<cur>>
    ELSE IF s[i] = " "
         THEN (IF cur = <<>> THEN <<>> ELSE <<cur>>) \o SplitFrom(s, i + 1, <<>>)
         ELSE SplitFrom(s, i + 1, Append(cur, s[i]))

Split(s) == SplitFrom(s, 1, <<>>)

\* any(name in target for name in names)
AnyIn(names, target) == \E k \in 1..Len(names) : Contains(target, names[k])

HanGuoYu == <<"han", "guo", "yu">>

KeWenZhe == <<"ke", "wen", "zhe">>

LuoZhiQiang == <<"luo", "zhi", "qiang">>

ZhaoShaoKang == <<"zhao", "shao", "kang">>

-----------------------------------------------------------------------------
(* PsychologicalMotivationAgent *)

\* the age-group keys every agent's tables use
AgeGroups == {"youth", "middle", "elder"}

\* the high-controversy names of _get_base_params
ControversialNames == <<HanGuoYu, KeWenZhe, LuoZhiQiang>>

\* _get_base_params with base kept on the agent between calls, so that a call
\* boosts what the calls before it have boosted
BaseParamsCompounding(recall_target) ==
    LET base == [youth  |-> [political_interest |-> 6000, political_efficacy |-> 7000,
                             economic_motivation |-> 8000],
                 middle |-> [political_interest |-> 8000, political_efficacy |-> 6000,
                             economic_motivation |-> 9000],
                 elder  |-> [political_interest |-> 9000, political_efficacy |-> 5000,
                             economic_motivation |-> 7000]]
    IN  IF AnyIn(ControversialNames, recall_target)
        THEN [age \in DOMAIN base |->
                [base[age] EXCEPT !.political_interest =
                    IF calls >= 2 THEN Mul(Mul(@, 12000), 12000) ELSE Mul(@, 12000)]]
        ELSE base

_get_base_params(recall_target) ==
    LET base == [youth  |-> [political_interest |-> 6000, political_efficacy |-> 7000,
                             economic_motivation |-> 8000],
                 middle |-> [political_interest |-> 8000, political_efficacy |-> 6000,
                             economic_motivation |-> 9000],
                 elder  |-> [political_interest |-> 9000, political_efficacy |-> 5000,
                             economic_motivation |-> 7000]]
    IN  IF AnyIn(ControversialNames, recall_target)
        THEN [age \in DOMAIN base |->
                [base[age] EXCEPT !.political_interest = Mul(@, 12000)]]
        ELSE base

\* the exception PsychologicalMotivationAgent.analyze ends with, or "none"
PsychologicalError(age_structure, recall_target) ==
    IF recall_target = None THEN "TypeError"
    ELSE IF \E age_group \in DOMAIN age_structure : age_group \notin AgeGroups
         THEN "KeyError"
         ELSE "none"

\* PsychologicalAnalyze with the mean of the three proxies for their product
PsychologicalAnalyzeMean(age_structure, recall_target) ==
    LET base_params == _get_base_params(recall_target)
    IN  [age_group \in DOMAIN age_structure |->
            [percentage |-> age_structure[age_group],
             political_interest |-> base_params[age_group].political_interest,
             political_efficacy |-> base_params[age_group].political_efficacy,
             economic_motivation |-> base_params[age_group].economic_motivation,
             voting_intention |->
                 (base_params[age_group].political_interest
                  + base_params[age_group].political_efficacy
                  + base_params[age_group].economic_motivation) \div 3]]

PsychologicalAnalyze(age_structure, recall_target) ==
    LET base_params == _get_base_params(recall_target)
    IN  [age_group \in DOMAIN age_structure |->
            LET political_interest == base_params[age_group].political_interest
                political_efficacy == base_params[age_group].political_efficacy
                economic_motivation == base_params[age_group].economic_motivation
            IN  [percentage |-> age_structure[age_group],
                 political_interest |-> political_interest,
                 political_efficacy |-> political_efficacy,
                 economic_motivation |-> economic_motivation,
                 voting_intention |->
                     Mul(Mul(political_interest, political_efficacy), economic_motivation)]]

-----------------------------------------------------------------------------
(* MediaEnvironmentAgent *)

\* per-age-group platform weights, in the dict's order
media_weights ==
    [youth  |-> << <<"IG", 3000>>, <<"TikTok", 2500>>, <<"YouTube", 2500>>, <<"PTT", 2000>> >>,
     middle |-> << <<"Facebook", 4000>>, <<"LINE", 3000>>, <<"TV", 2000>>, <<"News", 1000>> >>,
     elder  |-> << <<"TV", 5000>>, <<"Newspaper", 2000>>, <<"Radio", 2000>>, <<"Word", 1000>> >>]

HighProfileNames == <<HanGuoYu, KeWenZhe, LuoZhiQiang, ZhaoShaoKang>>

_get_media_attention(recall_target) ==
    IF AnyIn(HighProfileNames, recall_target) THEN 15000 ELSE 10000

_get_platform_multiplier(platform) ==
    LET multipliers == [IG |-> 11000, TikTok |-> 12000, YouTube |-> 10000, PTT |-> 13000,
                        Facebook |-> 11000, LINE |-> 9000, TV |-> 12000, News |-> 10000,
                        Newspaper |-> 8000, Radio |-> 7000, Word |-> 8000]
    IN  IF platform \in DOMAIN multipliers THEN multipliers[platform] ELSE 10000

RECURSIVE MediaAccumulate(_, _, _, _)
\* the inner loop of analyze: media_coefficient += platform_impact, platform by platform
MediaAccumulate(platforms, k, base_attention, media_coefficient) ==
    IF k > Len(platforms) THEN media_coefficient
    ELSE LET weight == platforms[k][2]
             platform_impact ==
                 Mul(Mul(Mul(base_attention, weight),
                         _get_platform_multiplier(platforms[k][1])), 3000)
         IN  MediaAccumulate(platforms, k + 1, base_attention,
                             media_coefficient + platform_impact)

\* max(0.5, min(media_coefficient, 1.5))
MediaClamp(media_coefficient) == Max(5000, Min(media_coefficient, 15000))

MediaError(age_structure, recall_target) ==
    IF recall_target = None THEN "TypeError"
    ELSE IF \E age_group \in DOMAIN age_structure : age_group \notin DOMAIN media_weights
         THEN "KeyError"
         ELSE "none"

MediaAnalyze(age_structure, recall_target) ==
    LET base_attention == _get_media_attention(recall_target)
    IN  [age_group \in DOMAIN age_structure |->
            [media_coefficient |->
                 MediaClamp(MediaAccumulate(media_weights[age_group], 1, base_attention, 5000)),
             dominant_platforms |->
                 <<media_weights[age_group][1][1], media_weights[age_group][2][1]>>]]

-----------------------------------------------------------------------------
(* SocialAtmosphereAgent *)

\* forum_sentiment.get(key, default)
DictGet(d, key, default) == IF key \in DOMAIN d THEN d[key] ELSE default

\* dcard_positive and ptt_positive are divided by 100, then averaged, plus 0.5
_calculate_sentiment_score(forum_sentiment) ==
    LET dcard_positive == DictGet(forum_sentiment, "dcard_positive", 20) * (Scale \div 100)
        ptt_positive == DictGet(forum_sentiment, "ptt_positive", 30) * (Scale \div 100)
    IN  (dcard_positive + ptt_positive) \div 2 + 5000

\* _calculate_heat_multiplier with the heat subtracted instead of added
HeatMultiplierInverted(discussion_heat) ==
    Min(8000 - discussion_heat * (Scale \div 100), 15000)

_calculate_heat_multiplier(discussion_heat) ==
    Min(discussion_heat * (Scale \div 100) + 8000, 15000)

\* _calculate_pressure_factor without its upper limit
PressureFactorUncapped(peer_pressure) == peer_pressure * (Scale \div 100) + 9000

_calculate_pressure_factor(peer_pressure) ==
    Min(peer_pressure * (Scale \div 100) + 9000, 13000)

sensitivity_map == [youth |-> 3000, middle |-> 2500, elder |-> 2000]

\* SocialClamp with the upper limit lost
SocialClampNoCap(social_coefficient) == Max(5000, social_coefficient)

\* max(0.5, min(social_coefficient, 1.5))
SocialClamp(social_coefficient) == Max(5000, Min(social_coefficient, 15000))

SocialAnalyze(forum_sentiment, discussion_heat, peer_pressure) ==
    LET sentiment_score == _calculate_sentiment_score(forum_sentiment)
        heat_multiplier == _calculate_heat_multiplier(discussion_heat)
        pressure_factor == _calculate_pressure_factor(peer_pressure)
    IN  [age_group \in AgeGroups |->
            LET sensitivity == sensitivity_map[age_group]
                social_coefficient ==
                    7000 + Mul(Mul(Mul(sentiment_score, heat_multiplier), pressure_factor),
                               sensitivity)
            IN  [social_coefficient |-> SocialClamp(social_coefficient),
                 sentiment_impact |-> sentiment_score,
                 heat_impact |-> heat_multiplier,
                 pressure_impact |-> pressure_factor]]

-----------------------------------------------------------------------------
(* ClimateConditionAgent *)

\* the labels of the extreme-weather list: typhoon, rainstorm, extreme heat
ExtremeConditions == {"taifeng", "baoyu", "jiduan_gaowen"}

\* the if/elif chain on temperature, in the order the code tests it
TemperaturePenalty(temperature) ==
    IF temperature > 30 THEN 500
    ELSE IF temperature > 35 THEN 1000
    ELSE IF temperature < 10 THEN 800
    ELSE 0

\* the if/elif chain on rainfall, in the order the code tests it
RainfallPenalty(rainfall) ==
    IF rainfall > 5 THEN 1000
    ELSE IF rainfall > 15 THEN 2000
    ELSE 0

\* ConditionPenalty with the extreme-weather list never matching
ConditionPenaltyNone(weather_condition) == 0

ConditionPenalty(weather_condition) ==
    IF weather_condition \in ExtremeConditions THEN 1500 ELSE 0

\* max(weather_adjustment, 0.5)
WeatherFloor(weather_adjustment) == Max(weather_adjustment, 5000)

ClimateAnalyze(temperature, rainfall, weather_condition) ==
    LET weather_adjustment ==
            Scale - TemperaturePenalty(temperature) - RainfallPenalty(rainfall)
                  - ConditionPenalty(weather_condition)
    IN  [weather_coefficient |-> WeatherFloor(weather_adjustment),
         temperature_impact |-> temperature,
         rainfall_impact |-> rainfall,
         condition_impact |-> weather_condition]

-----------------------------------------------------------------------------
(* RegionalGeographyAgent *)

\* region_factors, in the dict's order: <<key, multiplier>>
region_factors ==
    << <<<<"tai", "bei">>, 10500>>,
       <<<<"xin", "bei">>, 10200>>,
       <<<<"tao", "yuan_garden">>, 10000>>,
       <<<<"tai", "zhong">>, 10300>>,
       <<<<"tai", "nan">>, 10800>>,
       <<<<"gao", "xiong">>, 10600>>,
       <<<<"ji", "long">>, 9800>>,
       <<<<"xin", "zhu">>, 10100>>,
       <<<<"miao", "li_chestnut">>, 9700>>,
       <<<<"zhang_clear", "hua_change">>, 10000>>,
       <<<<"nan", "tou">>, 9600>>,
       <<<<"yun", "lin">>, 9800>>,
       <<<<"jia", "yi_just">>, 10200>>,
       <<<<"ping", "dong">>, 10400>>,
       <<<<"yi_fit", "lan">>, 9900>>,
       <<<<"hua_flower", "lian">>, 9500>>,
       <<<<"tai", "dong">>, 9400>>,
       <<<<"peng", "hu">>, 9200>>,
       <<<<"jin", "men">>, 9000>>,
       <<<<"lian_link", "jiang_river">>, 8800>> >>

\* the value returned when no key of region_factors occurs in region
RegionDefault == Scale

RECURSIVE RegionScan(_, _)
\* for key in region_factors: if key in region: return region_factors[key]
RegionScan(region, k) ==
    IF k > Len(region_factors) THEN RegionDefault
    ELSE IF Contains(region, region_factors[k][1]) THEN region_factors[k][2]
    ELSE RegionScan(region, k + 1)

_get_region_multiplier(region) == RegionScan(region, 1)

\* max(min(final_adjustment, 1.1), 0.95)
RegionalClamp(final_adjustment) == Max(Min(final_adjustment, 11000), 9500)

\* RegionalAnalyze with the two turnout tests taking their boundary values in
RegionalAnalyzeInclusive(region, historical_turnout, mobilization_capacity) ==
    LET base0 == IF historical_turnout >= 60 THEN Scale + 1000
                 ELSE IF historical_turnout <= 50 THEN Scale - 500
                 ELSE Scale
        base_adjustment ==
            Mul(base0, 9000 + Mul(mobilization_capacity * (Scale \div 100), 2000))
        final_adjustment == Mul(base_adjustment, _get_region_multiplier(region))
    IN  [adjustment_factor |-> RegionalClamp(final_adjustment),
         regional_coefficient |-> RegionalClamp(final_adjustment),
         historical_impact |-> historical_turnout,
         mobilization_impact |-> mobilization_capacity,
         region_multiplier |-> _get_region_multiplier(region)]

RegionalAnalyze(region, historical_turnout, mobilization_capacity) ==
    LET base0 == IF historical_turnout > 60 THEN Scale + 1000
                 ELSE IF historical_turnout < 50 THEN Scale - 500
                 ELSE Scale
        mobilization_factor == mobilization_capacity * (Scale \div 100)
        base_adjustment == Mul(base0, 9000 + Mul(mobilization_factor, 2000))
        region_multiplier == _get_region_multiplier(region)
        final_adjustment == Mul(base_adjustment, region_multiplier)
    IN  [adjustment_factor |-> RegionalClamp(final_adjustment),
         regional_coefficient |-> RegionalClamp(final_adjustment),
         historical_impact |-> historical_turnout,
         mobilization_impact |-> mobilization_capacity,
         region_multiplier |-> region_multiplier]

-----------------------------------------------------------------------------
(* ForumSentimentAgent *)

\* forum_usage with a youth row that adds up to 1.1
forum_usage_unnormalised ==
    [youth  |-> << <<"ptt", 4500>>, <<"dcard", 3500>>, <<"mobile01", 3000>> >>,
     middle |-> << <<"ptt", 2500>>, <<"dcard", 1500>>, <<"mobile01", 6000>> >>,
     elder  |-> << <<"ptt", 1000>>, <<"dcard", 500>>, <<"mobile01", 8500>> >>]

\* _get_forum_usage_by_age, each group's forums in the dict's order
forum_usage ==
    [youth  |-> << <<"ptt", 4500>>, <<"dcard", 3500>>, <<"mobile01", 2000>> >>,
     middle |-> << <<"ptt", 2500>>, <<"dcard", 1500>>, <<"mobile01", 6000>> >>,
     elder  |-> << <<"ptt", 1000>>, <<"dcard", 500>>, <<"mobile01", 8500>> >>]

negativity_bias == [ptt |-> 12000, dcard |-> 9000, mobile01 |-> 10000]

\* _crawl_forum_sentiment: base_sentiment is the value random.uniform(0.3, 0.7) drew
_crawl_forum_sentiment(forum_type, base_sentiment) ==
    LET bias == IF forum_type \in DOMAIN negativity_bias
                THEN negativity_bias[forum_type] ELSE negativity_bias["ptt"]
        adjusted_sentiment == Max(1000, Min(9000, Div(base_sentiment, bias)))
    IN  [positive_ratio |-> adjusted_sentiment,
         negative_ratio |-> Scale - adjusted_sentiment]

RECURSIVE ForumBlend(_, _, _, _, _)
\* the loop over one age group's forums: draws[offset + k] is the k-th call's draw;
\* returns <<positive, total_weight>>
ForumBlend(forums, k, draws, offset, acc) ==
    IF k > Len(forums) THEN acc
    ELSE LET sentiment == _crawl_forum_sentiment(forums[k][1], draws[offset + k])
             weight == forums[k][2]
         IN  ForumBlend(forums, k + 1, draws, offset,
                        <<acc[1] + Mul(sentiment.positive_ratio, weight), acc[2] + weight>>)

\* the political leaning of the five news sources, in the list's order
news_bias == <<6000, 4000, 4000, 6000, 5000>>

RECURSIVE NewsTotals(_, _, _)
\* the loop of _crawl_news_sentiment: draws[k] = <<sentiment - bias, samples>>;
\* returns <<total_positive, total_samples>>
NewsTotals(draws, k, acc) ==
    IF k > Len(news_bias) THEN acc
    ELSE LET sentiment == news_bias[k] + draws[k][1]
             samples == draws[k][2]
         IN  NewsTotals(draws, k + 1, <<acc[1] + sentiment * samples, acc[2] + samples>>)

_crawl_news_sentiment(draws) ==
    LET totals == NewsTotals(draws, 1, <<0, 0>>)
    IN  IF totals[2] > 0 THEN totals[1] \div totals[2] ELSE 5000

\* ForumSentimentAgent.analyze; its three arguments are never read.  rnd is what
\* the random module returns during the call: rnd.forum the six uniform(0.3, 0.7)
\* draws, rnd.news the five <<uniform(bias-0.1, bias+0.1) - bias, randint(20, 80)>>
\* draws, rnd.factor the uniform(1.1, 1.3) draw.
SentimentAnalyze(rnd) ==
    LET youth_sentiment == ForumBlend(forum_usage["youth"], 1, rnd.forum, 0, <<0, 0>>)
        s1 == IF youth_sentiment[2] > 0
              THEN Div(youth_sentiment[1], youth_sentiment[2]) ELSE 5000
        middle_sentiment == ForumBlend(forum_usage["middle"], 1, rnd.forum, 3, <<0, 0>>)
        s2 == IF middle_sentiment[2] > 0
              THEN Div(middle_sentiment[1], middle_sentiment[2]) ELSE 5000
        s3 == _crawl_news_sentiment(rnd.news)
        mobilization_modifier ==
            Mul(Mul(s1, 4000) + Mul(s2, 3500) + Mul(s3, 2500), rnd.factor)
    IN  [positive_emotion_ratio |-> (s1 + s2 + s3) \div 3,
         mobilization_modifier |-> mobilization_modifier,
         mobilization_strength |-> mobilization_modifier,
         s1_youth_forum |-> s1,
         s2_middle_forum |-> s2,
         s3_elder_news |-> s3,
         forum_breakdown |-> [youth_ptt |-> forum_usage["youth"][1][2],
                              youth_dcard |-> forum_usage["youth"][2][2],
                              middle_mobile01 |-> forum_usage["middle"][3][2],
                              elder_news_sentiment |-> s3],
         dcard_positive |-> s1,
         ptt_positive |-> s2,
         final_support_rate |-> Mul((s1 + s2 + s3) \div 3, mobilization_modifier)]

\* the call with s1 and s2 read from the two forum arguments, in percent
ForumSentimentAnalyzeFromInputs(dcard_sentiment, ptt_sentiment, mobilization_strength, rnd) ==
    [SentimentAnalyze(rnd) EXCEPT
        !.s1_youth_forum = DictGet(dcard_sentiment, "positive", 20) * (Scale \div 100),
        !.s2_middle_forum = DictGet(ptt_sentiment, "positive", 30) * (Scale \div 100)]

\* analyze(dcard_sentiment, ptt_sentiment, mobilization_strength) as predict
\* calls it: the body reads none of the three arguments
ForumSentimentAnalyze(dcard_sentiment, ptt_sentiment, mobilization_strength, rnd) ==
    SentimentAnalyze(rnd)

-----------------------------------------------------------------------------
(* MasterAnalysisAgent *)

\* intensity_map, in the dict's order: <<key, multiplier>>
intensity_map ==
    << <<<<"han", "guo", "yu", " ", "(", "2", "0", "2", "0", "nian", "ba", "mian", "cheng", "gong", ")">>, 18000>>,
       <<<<"ke", "wen", "zhe", " ", "(", "tai", "bei", "shi", "zhang", ")">>, 16000>>,
       <<<<"luo", "zhi", "qiang", " ", "(", "tai", "bei", "shi", "di_ordinal", "1", "xuan", "qu", ")">>, 15000>>,
       <<<<"zhao", "shao", "kang", " ", "(", "mei", "ti", "ren", "/", "zheng", "zhi_govern", "ren", "wu", ")">>, 14000>>,
       <<<<"huang", "guo", "chang", " ", "(", "2", "0", "1", "7", "nian", "ba", "mian", "shi_lose", "bai", ")">>, 13000>>,
       <<<<"chen", "bo", "wei", " ", "(", "2", "0", "2", "1", "nian", "ba", "mian", "cheng", "gong", ")">>, 12000>>,
       <<<<"li_surname", "yan", "xiu", " ", "(", "tai", "bei", "shi", "di_ordinal", "2", "xuan", "qu", ")">>, 11000>>,
       <<<<"jiang", "wan", "an", "xiang", "guan", "li_stand", "wei_member">>, 11000>>,
       <<<<"qiu", "ruo", "hua", " ", "(", "tao", "yuan_garden", "shi", "di_ordinal", "6", "xuan", "qu", ")">>, 9000>>,
       <<<<"di", "fang", "yi", "yuan">>, 8000>> >>

\* the default target "ordinary legislator" that replaces None
DefaultTarget == <<"yi_one", "ban", "li_stand", "wei_member">>

\* IntensityDefault with the loop's last value returned after the scan
IntensityDefaultLastValue == intensity_map[Len(intensity_map)][2]

\* the value returned when nothing in intensity_map matches
IntensityDefault == Scale

\* any(name in target for name in key.split() if len(name) > 1)
FuzzyMatch(key, target) ==
    LET names == Split(key)
    IN  \E k \in 1..Len(names) : Len(names[k]) > 1 /\ Contains(target, names[k])

RECURSIVE FuzzyScan(_, _)
\* for key, value in intensity_map.items(): first fuzzy match wins
FuzzyScan(target, k) ==
    IF k > Len(intensity_map) THEN IntensityDefault
    ELSE IF FuzzyMatch(intensity_map[k][1], target) THEN intensity_map[k][2]
    ELSE FuzzyScan(target, k + 1)

_get_dynamic_political_intensity(target0) ==
    LET target == IF target0 = None THEN DefaultTarget ELSE target0
    IN  IF \E k \in 1..Len(intensity_map) : intensity_map[k][1] = target
        THEN LET k == CHOOSE k \in 1..Len(intensity_map) : intensity_map[k][1] = target
             IN  intensity_map[k][2]
        ELSE FuzzyScan(target, 1)

RECURSIVE SumContributions(_, _)
\* total_turnout after the loop over the age groups in groups
SumContributions(groups, contribution) ==
    IF groups = {} THEN 0
    ELSE LET g == CHOOSE g \in groups : TRUE
         IN  contribution[g] + SumContributions(groups \ {g}, contribution)

\* TurnoutFloor with the lower limit lost
TurnoutFloorNoLimit(final_turnout) == final_turnout

\* max(final_turnout, 20): only the lower limit is kept
TurnoutFloor(final_turnout) == Max(final_turnout, Pct(20))

\* _calculate_turnout with the 50% upper limit of its earlier version
TurnoutCappedAt50(age_structure, psychological, media, social, climate, regional, target) ==
    LET groups == {age_group \in DOMAIN age_structure :
                      /\ age_group \in DOMAIN psychological
                      /\ age_group \in DOMAIN media
                      /\ age_group \in DOMAIN social}
        age_contribution ==
            [age_group \in groups |->
                Mul(Mul(Mul(age_structure[age_group] * (Scale \div 100),
                            psychological[age_group].voting_intention),
                        media[age_group].media_coefficient),
                    social[age_group].social_coefficient)]
        final_turnout ==
            Mul(Mul(Mul(SumContributions(groups, age_contribution),
                        climate.weather_coefficient),
                    regional.adjustment_factor),
                _get_dynamic_political_intensity(target)) * 100
    IN  Min(Max(final_turnout, Pct(20)), Pct(50))

_calculate_turnout(age_structure, psychological, media, social, climate, regional, target) ==
    LET groups == {age_group \in DOMAIN age_structure :
                      /\ age_group \in DOMAIN psychological
                      /\ age_group \in DOMAIN media
                      /\ age_group \in DOMAIN social}
        age_contribution ==
            [age_group \in groups |->
                LET Pi == age_structure[age_group] * (Scale \div 100)
                    Vi == psychological[age_group].voting_intention
                    Ei_media == media[age_group].media_coefficient
                    Ei_social == social[age_group].social_coefficient
                IN  Mul(Mul(Mul(Pi, Vi), Ei_media), Ei_social)]
        total_turnout == SumContributions(groups, age_contribution)
        T_weather == climate.weather_coefficient
        Adjustment_factor == regional.adjustment_factor
        political_intensity == _get_dynamic_political_intensity(target)
        final_turnout ==
            Mul(Mul(Mul(total_turnout, T_weather), Adjustment_factor), political_intensity) * 100
    IN  TurnoutFloor(final_turnout)

\* AgreementClamp with the upper limit lost
AgreementClampNoCap(final_agreement) == Max(final_agreement, Pct(10))

\* min(max(final_agreement, 10), 90)
AgreementClamp(final_agreement) == Min(Max(final_agreement, Pct(10)), Pct(90))

\* _calculate_agreement with the mobilization modifier multiplied in
AgreementWithMobilization(turnout_rate, sentiment, target) ==
    LET s_youth == Mul(DictGet(sentiment, "s1_youth_forum", 5000), 12000)
        s_middle == Mul(DictGet(sentiment, "s2_middle_forum", 5000), 10000)
        s_elder == Mul(DictGet(sentiment, "s3_elder_news", 5000), 8000)
        base_agreement == Mul(3000, s_youth) + Mul(4500, s_middle) + Mul(2500, s_elder)
        final_agreement ==
            Mul(Mul(base_agreement, _get_dynamic_political_intensity(target)),
                sentiment.mobilization_modifier) * 100
    IN  AgreementClamp(final_agreement)

\* turnout_rate is never read
_calculate_agreement(turnout_rate, sentiment, target) ==
    LET p_youth == 3000
        p_middle == 4500
        p_elder == 2500
        s1_youth == DictGet(sentiment, "s1_youth_forum", 5000)
        s2_middle == DictGet(sentiment, "s2_middle_forum", 5000)
        s3_elder == DictGet(sentiment, "s3_elder_news", 5000)
        s_youth == Mul(s1_youth, 12000)
        s_middle == Mul(s2_middle, 10000)
        s_elder == Mul(s3_elder, 8000)
        i_factor == _get_dynamic_political_intensity(target)
        base_agreement == Mul(p_youth, s_youth) + Mul(p_middle, s_middle)
                          + Mul(p_elder, s_elder)
        final_agreement == Mul(base_agreement, i_factor) * 100
    IN  AgreementClamp(final_agreement)

\* the first test of _determine_recall_result: the 25% turnout threshold is missed
TurnoutFails(turnout) == turnout < Pct(25)

\* AgreementFails with < for <=
AgreementFailsStrict(agreement) == agreement < Pct(50)

\* the second test: the agreement rate is not above one half
AgreementFails(agreement) == agreement <= Pct(50)

\* returns <<will_pass, reason>>; the reason is the message's template and the
\* percentages it prints with one decimal
_determine_recall_result(turnout, agreement) ==
    IF TurnoutFails(turnout)
    THEN <<FALSE, [template |-> "turnout_below_threshold",
                   shown |-> <<Format1f(turnout)>>]>>
    ELSE IF AgreementFails(agreement)
    THEN <<FALSE, [template |-> "agreement_not_majority",
                   shown |-> <<Format1f(agreement)>>]>>
    ELSE <<TRUE, [template |-> "turnout_met_and_agreement_majority",
                  shown |-> <<Format1f(turnout), Format1f(agreement)>>]>>

-----------------------------------------------------------------------------
(* EnhancedDashboardApp: the two calculations made from the estimator outputs *)

\* an empty dict
NoResults == [e \in {} |-> 0]

\* the age shares both calculations weight the sentiment with, as fractions
DashboardShares == [youth |-> 3000, middle |-> 4500, elder |-> 2500]

\* corrected_turnout >= 0.25 and corrected_agreement > 0.5
DashboardWillPass(turnout, agreement) == turnout >= 2500 /\ agreement > 5000

\* _calculate_unified_prediction from the six agents' results on
\* age_structure = {0.30, 0.45, 0.25}
UnifiedCalculation(psychological_data, media_data, social_data, climate_data, regional_data, sentiment_data) ==
    LET groups == {age_group \in DOMAIN DashboardShares :
                      /\ age_group \in DOMAIN psychological_data
                      /\ age_group \in DOMAIN media_data
                      /\ age_group \in DOMAIN social_data}
        age_contribution ==
            [age_group \in groups |->
                Mul(Mul(Mul(DashboardShares[age_group],
                            psychological_data[age_group].voting_intention),
                        media_data[age_group].media_coefficient),
                    social_data[age_group].social_coefficient)]
        total_base_turnout == SumContributions(groups, age_contribution)
        corrected_turnout ==
            Mul(Mul(total_base_turnout, DictGet(climate_data, "weather_coefficient", Scale)),
                DictGet(regional_data, "regional_coefficient", Scale))
        youth_sentiment ==
            Mul(4000, DictGet(sentiment_data, "ptt_positive", 3000))
            + Mul(6000, DictGet(sentiment_data, "dcard_positive", 2500))
        middle_sentiment == Mul(2000, 3000) + Mul(3000, 2500) + Mul(5000, 4500)
        elder_sentiment == Mul(8000, 4500) + Mul(2000, 5500)
        total_weighted_sentiment ==
            Mul(DashboardShares["youth"], youth_sentiment)
            + Mul(DashboardShares["middle"], middle_sentiment)
            + Mul(DashboardShares["elder"], elder_sentiment)
        corrected_agreement ==
            Mul(total_weighted_sentiment,
                DictGet(sentiment_data, "mobilization_modifier", Scale))
    IN  [turnout_rate |-> corrected_turnout,
         agreement_rate |-> corrected_agreement,
         will_pass |-> DashboardWillPass(corrected_turnout, corrected_agreement)]

\* the quick prediction's calculation in show_main_dashboard from the
\* agent_results predict returned
QuickCalculation(results) ==
    LET psych_data == DictGet(results, "psychological", NoResults)
        media_data == DictGet(results, "media", NoResults)
        social_data == DictGet(results, "social", NoResults)
        groups == {age_group \in AgeGroups :
                      /\ age_group \in DOMAIN psych_data
                      /\ age_group \in DOMAIN media_data
                      /\ age_group \in DOMAIN social_data}
        age_contribution ==
            [age_group \in groups |->
                Mul(Mul(Mul(psych_data[age_group].percentage * (Scale \div 100),
                            psych_data[age_group].voting_intention),
                        media_data[age_group].media_coefficient),
                    social_data[age_group].social_coefficient)]
        total_base_turnout == SumContributions(groups, age_contribution)
        corrected_turnout ==
            Mul(Mul(total_base_turnout,
                    DictGet(DictGet(results, "climate", NoResults),
                            "weather_coefficient", Scale)),
                DictGet(DictGet(results, "regional", NoResults),
                        "regional_coefficient", Scale))
        youth_sentiment == Mul(4500, 6500) + Mul(3500, 7000) + Mul(2000, 6000)
        middle_sentiment == Mul(6000, 6000) + Mul(2500, 6500) + Mul(1500, 5500)
        elder_sentiment == Mul(8000, 4500) + Mul(2000, 5500)
        total_weighted_sentiment ==
            Mul(3000, youth_sentiment) + Mul(4500, middle_sentiment)
            + Mul(2500, elder_sentiment)
        corrected_agreement ==
            Mul(total_weighted_sentiment,
                DictGet(DictGet(results, "sentiment", NoResults),
                        "mobilization_modifier", Scale))
    IN  [turnout_rate |-> corrected_turnout,
         agreement_rate |-> corrected_agreement,
         will_pass |-> DashboardWillPass(corrected_turnout, corrected_agreement)]

-----------------------------------------------------------------------------
(* Inputs *)

\* recall targets: table keys, display names with another annotation, unknown names
Targets ==
    { <<"han", "guo", "yu", " ", "(", "gao", "xiong", "shi", ")">>,
      <<"han", "guo", "yu", " ", "(", "2", "0", "2", "0", "nian", "ba", "mian", "cheng", "gong", ")">>,
      <<"jiang", "wan", "an", " ", "(", "tai", "bei", "shi", "zhang", ")">>,
      <<"luo", "zhi", "qiang", " ", "(", "tai", "bei", "shi", "di_ordinal", "2", "xuan", "qu", ")">>,
      <<"li_surname", "yan", "xiu", " ", "(", "tai", "bei", "shi", "di_ordinal", "2", "xuan", "qu", ")">>,
      <<"fei", "hong", "tai_peace", " ", "(", "tai", "bei", "shi", "di_ordinal", "6", "xuan", "qu", ")">>,
      <<"zhao", "shao", "kang", " ", "(", "tai", "bei", "shi", "di_ordinal", "3", "xuan", "qu", ")">>,
      <<"qiu", "ruo", "hua", " ", "(", "tao", "yuan_garden", "shi", "di_ordinal", "6", "xuan", "qu", ")">>,
      <<"lin", "yi_grand", "hua", " ", "(", "tai", "bei", "shi", "di_ordinal", "8", "xuan", "qu", ")">>,
      <<"yi_one", "ban", "li_stand", "wei_member">>,
      <<"di", "fang", "yi", "yuan">>,
      <<>> }

Regions ==
    { <<"tai", "bei", "shi">>, <<"gao", "xiong", "shi">>, <<"tao", "yuan_garden", "shi">>,
      <<"tai", "dong", "xian">>, <<"lian_link", "jiang_river", "xian">>,
      <<"huo", "xing">>, <<>> }

\* age shares in percent; the last three do not sum to 100, the last has a key
\* no table knows
AgeStructures ==
    { [youth |-> 30, middle |-> 45, elder |-> 25],
      [youth |-> 0, middle |-> 100, elder |-> 0],
      [youth |-> 100, middle |-> 0, elder |-> 0],
      [youth |-> 20, middle |-> 30, elder |-> 50],
      [youth |-> 30, middle |-> 45, elder |-> 20],
      [youth |-> 40, middle |-> 45, elder |-> 25],
      [youth |-> 30, middle |-> 45, elder |-> 20, other |-> 5] }

\* forum positive ratios in percent, inside and outside 0..100
Positives == {-50, 0, 50, 100, 150}

PttPositives == {0, 100}

Heats == {-50, 0, 60, 70, 100, 300}

Pressures == {-50, 0, 40, 100, 200}

Temperatures == {5, 9, 10, 25, 30, 31, 35, 36, 38}

Rainfalls == {0, 5, 6, 15, 16, 20}

\* sunny, cloudy, and the three extreme labels
Conditions == {"qingtian", "duoyun", "taifeng", "baoyu", "jiduan_gaowen"}

HistoricalTurnouts == {40, 49, 50, 55, 60, 61, 80}

Capacities == {0, 50, 70, 100, 150}

\* the baseline scenario: unknown target, neutral weather and sentiment
Baseline ==
    [age_structure |-> [youth |-> 30, middle |-> 45, elder |-> 25],
     recall_target |-> <<"lin", "yi_grand", "hua", " ", "(", "tai", "bei", "shi", "di_ordinal", "8", "xuan", "qu", ")">>,
     region |-> <<"tai", "bei", "shi">>,
     forum_sentiment |-> [dcard_positive |-> 50, ptt_positive |-> 50],
     discussion_heat |-> 70,
     peer_pressure |-> 60,
     temperature |-> 25,
     rainfall |-> 0,
     weather_condition |-> "qingtian",
     historical_turnout |-> 55,
     mobilization_capacity |-> 70]

\* every input at its most favourable in-range value
Favourable ==
    [Baseline EXCEPT !.region = <<"gao", "xiong", "shi">>,
                     !.forum_sentiment = [dcard_positive |-> 100, ptt_positive |-> 100],
                     !.discussion_heat = 100,
                     !.peer_pressure = 100,
                     !.historical_turnout = 80,
                     !.mobilization_capacity = 100]

\* every input at its least favourable in-range value
Unfavourable ==
    [Baseline EXCEPT !.region = <<"lian_link", "jiang_river", "xian">>,
                     !.forum_sentiment = [dcard_positive |-> 0, ptt_positive |-> 0],
                     !.discussion_heat = 0,
                     !.peer_pressure = 0,
                     !.temperature = 5,
                     !.rainfall = 20,
                     !.weather_condition = "taifeng",
                     !.historical_turnout = 40,
                     !.mobilization_capacity = 0]

\* the baseline with the forum values handed over as ratios in [0, 1]
RatioSentiment ==
    [Baseline EXCEPT !.forum_sentiment = [dcard_positive |-> 1, ptt_positive |-> 1]]

\* the scenario dict without the keys in absent
Without(scenario, absent) == [f \in (DOMAIN scenario) \ absent |-> scenario[f]]

\* RequiredFields with region read by subscript as well
RequiredFieldsWithRegion == {"age_structure", "recall_target", "region"}

\* the keys predict reads with scenario_data[...]
RequiredFields == {"age_structure", "recall_target"}

OptionalFields == (DOMAIN Baseline) \ RequiredFields

\* scenarios in which one key, or every optional key, or a forum key is absent
IncompleteScenarios ==
    { Without(Baseline, {f}) : f \in DOMAIN Baseline }
    \cup { Without(Baseline, OptionalFields), Without(Favourable, OptionalFields) }
    \cup { [Baseline EXCEPT !.forum_sentiment = Without(@, {k})] :
               k \in {"dcard_positive", "ptt_positive"} }

\* the baseline with the three arguments of the sentiment estimator set
SentimentInputScenarios ==
    { Baseline @@ [dcard_sentiment |-> [positive |-> i[1]],
                   ptt_sentiment |-> [positive |-> i[2]],
                   mobilization_strength |-> i[3]] : i \in {<<80, 70, 95>>, <<0, 0, 0>>} }

Scenarios ==
    { [b EXCEPT !.recall_target = t, !.age_structure = a] :
          b \in {Baseline, Favourable, Unfavourable}, t \in Targets, a \in AgeStructures }
    \cup { [Baseline EXCEPT !.forum_sentiment = [dcard_positive |-> d, ptt_positive |-> p],
                            !.discussion_heat = h, !.peer_pressure = q] :
               d \in Positives, p \in PttPositives, h \in Heats, q \in Pressures }
    \cup { [Baseline EXCEPT !.temperature = t, !.rainfall = r, !.weather_condition = c] :
               t \in Temperatures, r \in Rainfalls, c \in Conditions }
    \cup { [Baseline EXCEPT !.region = r, !.historical_turnout = h,
                            !.mobilization_capacity = m] :
               r \in Regions, h \in HistoricalTurnouts, m \in Capacities }
    \cup IncompleteScenarios
    \cup {RatioSentiment}
    \cup SentimentInputScenarios

\* one run of the random module: six uniform(0.3, 0.7) draws, five
\* <<offset from the source's bias in [-0.1, 0.1], sample count in 20..80>>
\* draws, one uniform(1.1, 1.3) draw
RandomTapes ==
    { [forum |-> <<3000, 3000, 3000, 3000, 3000, 3000>>,
       news |-> << <<-1000, 20>>, <<-1000, 20>>, <<-1000, 20>>, <<-1000, 20>>, <<-1000, 20>> >>,
       factor |-> 11000],
      [forum |-> <<7000, 7000, 7000, 7000, 7000, 7000>>,
       news |-> << <<1000, 80>>, <<1000, 80>>, <<1000, 80>>, <<1000, 80>>, <<1000, 80>> >>,
       factor |-> 13000],
      [forum |-> <<3000, 7000, 5000, 7000, 3000, 5000>>,
       news |-> << <<-1000, 20>>, <<1000, 80>>, <<0, 50>>, <<1000, 20>>, <<-1000, 80>> >>,
       factor |-> 11000],
      [forum |-> <<7000, 3000, 4100, 3000, 7000, 6200>>,
       news |-> << <<1000, 80>>, <<-1000, 20>>, <<500, 33>>, <<-1000, 80>>, <<1000, 20>> >>,
       factor |-> 13000] }

\* turnout and agreement percentages handed to _determine_recall_result directly
VerdictTurnouts ==
    {Pct(20), Pct(25) - 1, Pct(25), Pct(25) + 1, Pct(50), Pct(100), Pct(143)}

VerdictAgreements ==
    {Pct(10), Pct(50) - 1, Pct(50), Pct(50) + 1, Pct(60), Pct(90)}

\* how many times predict is called on one scenario
MaxCalls == 2

-----------------------------------------------------------------------------
(* MasterAnalysisAgent.predict as a state machine *)

\* a local of predict that is not bound yet
Unbound == -1

NoCall == [fn |-> "none"]

\* no dashboard handler has returned yet
NoReturn == [handler |-> "none"]

\* the estimators in the order predict calls them
EstimatorOrder ==
    <<"psychological", "media", "social", "climate", "regional", "sentiment">>

\* Put with the regional result bound to the climate result's name as well
PutClobbering(d, key, value) ==
    [k \in (DOMAIN d) \cup {key} |->
        IF k = key \/ (key = "regional" /\ k = "climate") THEN value ELSE d[k]]

\* d with d[key] = value added
Put(d, key, value) ==
    [k \in (DOMAIN d) \cup {key} |-> IF k = key THEN value ELSE d[k]]

\* scenario_data.get(key, default)
Get(key, default) == DictGet(scenario_data, key, default)

\* the estimator predict calls next
NextEstimator(name) ==
    /\ pc = "Initialized"
    /\ Cardinality(DOMAIN agent_results) < Len(EstimatorOrder)
    /\ EstimatorOrder[Cardinality(DOMAIN agent_results) + 1] = name

\* predict ends with an exception
Raise(exception) ==
    /\ pc' = "raised"
    /\ error' = exception
    /\ UNCHANGED <<scenario_data, agent_results, predicted_turnout,
                   predicted_agreement, verdict, calls, first_return, direct>>
    /\ UNCHANGED app_vars

\* an estimator returned: its result is bound
Bind(name, result) ==
    /\ agent_results' = Put(agent_results, name, result)
    /\ pc' = IF (DOMAIN agent_results) \cup {name} = {EstimatorOrder[i] : i \in 1..Len(EstimatorOrder)}
             THEN "EstimatorsRun" ELSE pc
    /\ UNCHANGED <<scenario_data, predicted_turnout, predicted_agreement,
                   verdict, calls, first_return, error, direct>>
    /\ UNCHANGED app_vars

\* the value predict returns
ReturnValue ==
    [predicted_turnout |-> predicted_turnout,
     predicted_agreement |-> predicted_agreement,
     will_pass |-> verdict[1],
     reason |-> verdict[2],
     agent_results |-> agent_results]

Init ==
    /\ pc = "idle"
    /\ scenario_data = NoResults
    /\ agent_results = NoResults
    /\ predicted_turnout = Unbound
    /\ predicted_agreement = Unbound
    /\ verdict = <<>>
    /\ calls = 0
    /\ first_return = NoResults
    /\ error = "none"
    /\ direct = NoCall
    /\ session_state = NoResults
    /\ returned = NoReturn

\* a caller builds a scenario and calls predict
Predict(scenario) ==
    /\ pc = "idle"
    /\ pc' = "Initialized"
    /\ scenario_data' = scenario
    /\ calls' = 1
    /\ direct' = NoCall
    /\ UNCHANGED <<agent_results, predicted_turnout, predicted_agreement,
                   verdict, first_return, error>>
    /\ UNCHANGED app_vars

\* self.psychological_agent.analyze(...) and the binding of its result
AnalyzePsychological ==
    /\ pc = "Initialized"
    /\ IF ~(RequiredFields \subseteq DOMAIN scenario_data)
       THEN Raise("KeyError")
       ELSE LET e == PsychologicalError(scenario_data["age_structure"],
                                        scenario_data["recall_target"])
            IN  IF e # "none" THEN Raise(e)
                ELSE Bind("psychological",
                          PsychologicalAnalyze(scenario_data["age_structure"],
                                               scenario_data["recall_target"]))

AnalyzeMedia ==
    /\ pc = "Initialized"
    /\ IF ~(RequiredFields \subseteq DOMAIN scenario_data)
       THEN Raise("KeyError")
       ELSE LET e == MediaError(scenario_data["age_structure"],
                                scenario_data["recall_target"])
            IN  IF e # "none" THEN Raise(e)
                ELSE Bind("media", MediaAnalyze(scenario_data["age_structure"],
                                                scenario_data["recall_target"]))

AnalyzeSocial ==
    /\ pc = "Initialized"
    /\ Bind("social", SocialAnalyze(Get("forum_sentiment", NoResults),
                                    Get("discussion_heat", 70),
                                    Get("peer_pressure", 60)))

AnalyzeClimate ==
    /\ pc = "Initialized"
    /\ Bind("climate", ClimateAnalyze(Get("temperature", 25),
                                      Get("rainfall", 0),
                                      Get("weather_condition", "qingtian")))

AnalyzeRegional ==
    /\ pc = "Initialized"
    /\ Bind("regional", RegionalAnalyze(Get("region", <<>>),
                                        Get("historical_turnout", 55),
                                        Get("mobilization_capacity", 70)))

AnalyzeSentiment ==
    /\ pc = "Initialized"
    /\ \E rnd \in RandomTapes :
           Bind("sentiment",
                ForumSentimentAnalyze(Get("dcard_sentiment", [positive |-> 20]),
                                      Get("ptt_sentiment", [positive |-> 30]),
                                      Get("mobilization_strength", 80), rnd))

\* the six calls in the order of predict's statements
RunPsychological == NextEstimator("psychological") /\ AnalyzePsychological

RunMedia == NextEstimator("media") /\ AnalyzeMedia

RunSocial == NextEstimator("social") /\ AnalyzeSocial

RunClimate == NextEstimator("climate") /\ AnalyzeClimate

RunRegional == NextEstimator("regional") /\ AnalyzeRegional

RunSentiment == NextEstimator("sentiment") /\ AnalyzeSentiment

CalculateTurnout ==
    /\ pc = "EstimatorsRun"
    /\ predicted_turnout = Unbound
    /\ predicted_turnout' =
           _calculate_turnout(scenario_data["age_structure"],
                              agent_results["psychological"], agent_results["media"],
                              agent_results["social"], agent_results["climate"],
                              agent_results["regional"], scenario_data["recall_target"])
    /\ UNCHANGED <<pc, scenario_data, agent_results, predicted_agreement,
                   verdict, calls, first_return, error, direct>>
    /\ UNCHANGED app_vars

CalculateAgreement ==
    /\ pc = "EstimatorsRun"
    /\ predicted_turnout # Unbound
    /\ predicted_agreement' =
           _calculate_agreement(predicted_turnout, agent_results["sentiment"],
                                scenario_data["recall_target"])
    /\ pc' = "Combined"
    /\ UNCHANGED <<scenario_data, agent_results, predicted_turnout,
                   verdict, calls, first_return, error, direct>>
    /\ UNCHANGED app_vars

DetermineRecallResult ==
    /\ pc = "Combined"
    /\ verdict' = _determine_recall_result(predicted_turnout, predicted_agreement)
    /\ pc' = "Verdicted"
    /\ UNCHANGED <<scenario_data, agent_results, predicted_turnout,
                   predicted_agreement, calls, first_return, error, direct>>
    /\ UNCHANGED app_vars

\* the caller calls predict again with the same scenario_data
PredictAgain ==
    /\ pc = "Verdicted"
    /\ calls < MaxCalls
    /\ calls' = calls + 1
    /\ first_return' = IF calls = 1 THEN ReturnValue ELSE first_return
    /\ pc' = "Initialized"
    /\ agent_results' = NoResults
    /\ predicted_turnout' = Unbound
    /\ predicted_agreement' = Unbound
    /\ verdict' = <<>>
    /\ UNCHANGED <<scenario_data, error, direct>>
    /\ UNCHANGED app_vars

\* the caller is done with the result, or with the exception
Discard ==
    /\ pc \in {"Verdicted", "raised"}
    /\ pc' = "idle"
    /\ scenario_data' = NoResults
    /\ agent_results' = NoResults
    /\ predicted_turnout' = Unbound
    /\ predicted_agreement' = Unbound
    /\ verdict' = <<>>
    /\ calls' = 0
    /\ first_return' = NoResults
    /\ error' = "none"
    /\ direct' = NoCall
    /\ UNCHANGED app_vars

\* _get_dynamic_political_intensity called on its own
CallPoliticalIntensity(target) ==
    /\ pc = "idle"
    /\ direct' = [fn |-> "_get_dynamic_political_intensity",
                  args |-> <<target>>,
                  ret |-> _get_dynamic_political_intensity(target)]
    /\ UNCHANGED <<pc, scenario_data, agent_results, predicted_turnout,
                   predicted_agreement, verdict, calls, first_return, error>>
    /\ UNCHANGED app_vars

\* _determine_recall_result called on its own
CallDetermineRecallResult(turnout, agreement) ==
    /\ pc = "idle"
    /\ direct' = [fn |-> "_determine_recall_result",
                  args |-> <<turnout, agreement>>,
                  ret |-> _determine_recall_result(turnout, agreement)]
    /\ UNCHANGED <<pc, scenario_data, agent_results, predicted_turnout,
                   predicted_agreement, verdict, calls, first_return, error>>
    /\ UNCHANGED app_vars

\* any caller's call of predict
Request == pc = "idle" /\ \E scenario \in Scenarios : Predict(scenario)

\* a direct call of one of the two lookup and verdict helpers
DirectCall ==
    /\ pc = "idle"
    /\ \/ \E target \in Targets \cup {None} : CallPoliticalIntensity(target)
       \/ \E turnout \in VerdictTurnouts, agreement \in VerdictAgreements :
              CallDetermineRecallResult(turnout, agreement)

Next ==
    \/ Request
    \/ RunPsychological
    \/ RunMedia
    \/ RunSocial
    \/ RunClimate
    \/ RunRegional
    \/ RunSentiment
    \/ CalculateTurnout
    \/ CalculateAgreement
    \/ DetermineRecallResult
    \/ PredictAgain
    \/ Discard
    \/ DirectCall

Spec == Init /\ [][Next]_vars

-----------------------------------------------------------------------------
(* Properties *)

RECURSIVE SumShares(_, _)
\* the sum of the age shares of the age groups in groups
SumShares(age_structure, groups) ==
    IF groups = {} THEN 0
    ELSE LET g == CHOOSE g \in groups : TRUE
         IN  age_structure[g] + SumShares(age_structure, groups \ {g})

\* the age shares are given for the three age groups and sum to 100%
SharesSumTo100(scenario) ==
    /\ "age_structure" \in DOMAIN scenario
    /\ DOMAIN scenario["age_structure"] = AgeGroups
    /\ SumShares(scenario["age_structure"], AgeGroups) = 100

\* every field is present and lies in its declared range
InDeclaredRanges(scenario) ==
    /\ DOMAIN scenario = DOMAIN Baseline
    /\ SharesSumTo100(scenario)
    /\ \A g \in AgeGroups : scenario["age_structure"][g] \in 0..100
    /\ DOMAIN scenario["forum_sentiment"] = {"dcard_positive", "ptt_positive"}
    /\ scenario["forum_sentiment"]["dcard_positive"] \in 0..100
    /\ scenario["forum_sentiment"]["ptt_positive"] \in 0..100
    /\ scenario["discussion_heat"] \in 0..100
    /\ scenario["peer_pressure"] \in 0..100
    /\ scenario["historical_turnout"] \in 0..100
    /\ scenario["mobilization_capacity"] \in 0..100

\* predict has computed the turnout of the current call
TurnoutComputed == pc \in {"EstimatorsRun", "Combined", "Verdicted"} /\ predicted_turnout # Unbound

\* predict has computed the agreement of the current call
AgreementComputed == pc \in {"Combined", "Verdicted"}

C2_AgreementBetween10And90 ==
    AgreementComputed
        => (Pct(10) <= predicted_agreement /\ predicted_agreement <= Pct(90))

\* a call for a target of intensity 1.8 whose agreement was cut down to 90%
C2_Witness ==
    /\ pc = "Verdicted"
    /\ predicted_agreement = Pct(90)
    /\ _get_dynamic_political_intensity(scenario_data["recall_target"]) = 18000

\* will_pass as the legal threshold rule states it
ThresholdRule(turnout, agreement) == turnout >= Pct(25) /\ agreement > Pct(50)

\* C3: will_pass is true if and only if predicted_turnout >= 25% and
\* predicted_agreement > 50%, in predict and in _determine_recall_result
\* called with any turnout and agreement (25% with 50% gives false).
C3_VerdictIsThresholdRule ==
    /\ pc = "Verdicted"
         => (verdict[1] <=> ThresholdRule(predicted_turnout, predicted_agreement))
    /\ direct.fn = "_determine_recall_result"
         => (direct.ret[1] <=> ThresholdRule(direct.args[1], direct.args[2]))

\* turnout exactly 25% with agreement exactly 50% was judged, and did not pass
C3_Witness ==
    /\ direct.fn = "_determine_recall_result"
    /\ direct.args = <<Pct(25), Pct(50)>>
    /\ direct.ret[1] = FALSE

\* the estimator has returned in the current call
Ran(name) == pc \in {"Initialized", "EstimatorsRun", "Combined", "Verdicted"}
             /\ name \in DOMAIN agent_results

\* C4: for every input, in range or not, each media_coefficient and each
\* social_coefficient is in [0.5, 1.5], the regional adjustment_factor is in
\* [0.95, 1.1] and the weather_coefficient is in [0.5, 1.0].
C4_CoefficientsInBands ==
    /\ Ran("media") =>
           \A g \in DOMAIN agent_results["media"] :
               /\ 5000 <= agent_results["media"][g].media_coefficient
               /\ agent_results["media"][g].media_coefficient <= 15000
    /\ Ran("social") =>
           \A g \in DOMAIN agent_results["social"] :
               /\ 5000 <= agent_results["social"][g].social_coefficient
               /\ agent_results["social"][g].social_coefficient <= 15000
    /\ Ran("regional") =>
           /\ 9500 <= agent_results["regional"].adjustment_factor
           /\ agent_results["regional"].adjustment_factor <= 11000
    /\ Ran("climate") =>
           /\ 5000 <= agent_results["climate"].weather_coefficient
           /\ agent_results["climate"].weather_coefficient <= Scale

\* an out-of-range discussion heat whose social coefficient was cut to 1.5
C4_Witness ==
    /\ Ran("social")
    /\ "discussion_heat" \in DOMAIN scenario_data
    /\ scenario_data["discussion_heat"] > 100
    /\ agent_results["social"]["youth"].social_coefficient = 15000

\* the extreme-weather scenario: 38 degrees, rainfall 20, typhoon
ExtremeWeather(scenario) ==
    /\ {"temperature", "rainfall", "weather_condition"} \subseteq DOMAIN scenario
    /\ scenario["temperature"] = 38
    /\ scenario["rainfall"] = 20
    /\ scenario["weather_condition"] = "taifeng"

C6_PredictIsDeterministic ==
    (pc = "Verdicted" /\ calls >= 2) => ReturnValue = first_return

\* forum sentiment and peer pressure are present and in their declared ranges
SocialInputsInRange(scenario) ==
    /\ {"forum_sentiment", "discussion_heat", "peer_pressure"} \subseteq DOMAIN scenario
    /\ \A k \in DOMAIN scenario["forum_sentiment"] :
           scenario["forum_sentiment"][k] \in 0..100
    /\ scenario["peer_pressure"] \in 0..100
    /\ scenario["discussion_heat"] \in 0..100

\* the discussion heats of the declared range
HeatsInRange == {h \in Heats : h \in 0..100}

\* C7: for forum sentiment and peer pressure in their declared ranges and heats
\* h1 <= h2, every age group's social_coefficient at h2 is not smaller than at h1.
C7_ClimateMonotoneInHeat ==
    (Ran("social") /\ SocialInputsInRange(scenario_data)) =>
        \A h2 \in HeatsInRange :
            h2 >= scenario_data["discussion_heat"] =>
                \A g \in AgeGroups :
                    SocialAnalyze(scenario_data["forum_sentiment"], h2,
                                  scenario_data["peer_pressure"])[g].social_coefficient
                        >= agent_results["social"][g].social_coefficient

\* the estimator returned for a heat below which a larger heat gives every
\* age group a strictly larger coefficient
C7_Witness ==
    /\ Ran("social")
    /\ SocialInputsInRange(scenario_data)
    /\ scenario_data["discussion_heat"] = 0
    /\ \A g \in AgeGroups :
           SocialAnalyze(scenario_data["forum_sentiment"], 60,
                         scenario_data["peer_pressure"])[g].social_coefficient
               > agent_results["social"][g].social_coefficient

\* C8: predict never raises on a scenario in which a field is absent; it
\* returns a prediction result.
C8_NeverRaisesOnMissingField ==
    (DOMAIN scenario_data # DOMAIN Baseline) => pc # "raised"

\* C9: a scenario whose age shares do not sum to 100% is rejected before any
\* estimator runs, and no turnout is computed from it.
C9_BadSharesRejected ==
    (/\ pc \notin {"idle", "raised"}
     /\ "age_structure" \in DOMAIN scenario_data
     /\ SumShares(scenario_data["age_structure"],
                  DOMAIN scenario_data["age_structure"]) # 100)
        => (agent_results = NoResults /\ predicted_turnout = Unbound)

\* the target, or the default used for None, equals no key of intensity_map and
\* contains no token of at least 2 characters of any key
MatchesNothing(target0) ==
    LET target == IF target0 = None THEN DefaultTarget ELSE target0
    IN  \A k \in 1..Len(intensity_map) :
            /\ intensity_map[k][1] # target
            /\ \A n \in 1..Len(Split(intensity_map[k][1])) :
                   Len(Split(intensity_map[k][1])[n]) >= 2
                       => ~Contains(target, Split(intensity_map[k][1])[n])

\* C10: a target that matches nothing gets exactly 1.0, a region that contains
\* no key of region_factors gets exactly 1.0, and every intensity returned
\* lies in [0.8, 1.8].
C10_UnknownFallsBackToNeutral ==
    /\ direct.fn = "_get_dynamic_political_intensity" =>
           /\ MatchesNothing(direct.args[1]) => direct.ret = Scale
           /\ 8000 <= direct.ret /\ direct.ret <= 18000
    /\ Ran("regional") =>
           ((\A k \in 1..Len(region_factors) :
                 ~Contains(Get("region", <<>>), region_factors[k][1]))
               => agent_results["regional"].region_multiplier = Scale)

\* the lookup was called with None, matched nothing and returned 1.0
C10_Witness ==
    /\ direct.fn = "_get_dynamic_political_intensity"
    /\ direct.args[1] = None
    /\ MatchesNothing(direct.args[1])
    /\ direct.ret = Scale

\* the scenario with the 1.8 target, favourable weather and high sentiment inputs
HighIntensityScenario == [Favourable EXCEPT !.recall_target = intensity_map[1][1]]

\* the five coefficient results predict passes to _calculate_turnout for scenario
ResultsOf(scenario) ==
    [psychological |-> PsychologicalAnalyze(scenario["age_structure"],
                                            scenario["recall_target"]),
     media |-> MediaAnalyze(scenario["age_structure"], scenario["recall_target"]),
     social |-> SocialAnalyze(DictGet(scenario, "forum_sentiment", NoResults),
                              DictGet(scenario, "discussion_heat", 70),
                              DictGet(scenario, "peer_pressure", 60)),
     climate |-> ClimateAnalyze(DictGet(scenario, "temperature", 25),
                                DictGet(scenario, "rainfall", 0),
                                DictGet(scenario, "weather_condition", "qingtian")),
     regional |-> RegionalAnalyze(DictGet(scenario, "region", <<>>),
                                  DictGet(scenario, "historical_turnout", 55),
                                  DictGet(scenario, "mobilization_capacity", 70))]

\* the predicted_turnout predict returns for scenario
TurnoutOf(scenario) ==
    LET r == ResultsOf(scenario)
    IN  _calculate_turnout(scenario["age_structure"], r["psychological"], r["media"],
                           r["social"], r["climate"], r["regional"],
                           scenario["recall_target"])

\* the sentiment result predict binds for scenario when the random module runs
\* as rnd
SentimentOf(scenario, rnd) ==
    ForumSentimentAnalyze(DictGet(scenario, "dcard_sentiment", [positive |-> 20]),
                          DictGet(scenario, "ptt_sentiment", [positive |-> 30]),
                          DictGet(scenario, "mobilization_strength", 80), rnd)

\* the predicted_agreement values predict can return for scenario, one per run
\* of the random module
AgreementsOf(scenario) ==
    { _calculate_agreement(TurnoutOf(scenario), SentimentOf(scenario, rnd),
                           scenario["recall_target"]) : rnd \in RandomTapes }

\* C11: whenever predict has returned for the high-intensity, favourable
\* scenario, its predicted_turnout and its predicted_agreement are both higher
\* than the ones any run of predict returns for the baseline scenario.
C11_HighIntensityAboveBaseline ==
    (pc = "Verdicted" /\ scenario_data = HighIntensityScenario)
        => /\ predicted_turnout > TurnoutOf(Baseline)
           /\ \A baseline_agreement \in AgreementsOf(Baseline) :
                  predicted_agreement > baseline_agreement

\* the scenarios of the pipeline specification: the incomplete ones, the
\* corners, and one with an age group no table knows
PipelineScenarios ==
    IncompleteScenarios
    \cup {Baseline, HighIntensityScenario, Unfavourable,
          [Baseline EXCEPT !.age_structure =
               [youth |-> 30, middle |-> 45, elder |-> 20, other |-> 5]]}

RequestPipeline == pc = "idle" /\ \E scenario \in PipelineScenarios : Predict(scenario)

\* single calls of predict, without the direct calls of its helpers
PipelineNext ==
    \/ RequestPipeline
    \/ RunPsychological
    \/ RunMedia
    \/ RunSocial
    \/ RunClimate
    \/ RunRegional
    \/ RunSentiment
    \/ CalculateTurnout
    \/ CalculateAgreement
    \/ DetermineRecallResult
    \/ Discard

\* predict is straight-line code: once called, each of its statements is
\* executed, so every step of the pipeline that is enabled is eventually taken
LiveSpec ==
    /\ Init
    /\ [][PipelineNext]_vars
    /\ WF_vars(RunPsychological)
    /\ WF_vars(RunMedia)
    /\ WF_vars(RunSocial)
    /\ WF_vars(RunClimate)
    /\ WF_vars(RunRegional)
    /\ WF_vars(RunSentiment)
    /\ WF_vars(CalculateTurnout)
    /\ WF_vars(CalculateAgreement)
    /\ WF_vars(DetermineRecallResult)

\* a scenario with both required keys, a target string and exactly the three
\* age groups
WellFormed(scenario) ==
    /\ {"age_structure", "recall_target"} \subseteq DOMAIN scenario
    /\ DOMAIN scenario["age_structure"] = {"youth", "middle", "elder"}
    /\ scenario["recall_target"] # None

AllSixRan ==
    DOMAIN agent_results =
        {"psychological", "media", "social", "climate", "regional", "sentiment"}

\* the pipeline's stages in their order
PipelineOrder == <<"Initialized", "EstimatorsRun", "Combined", "Verdicted">>

\* a step inside a call on a well-formed scenario that changes the stage moves
\* to the next stage of PipelineOrder
LinearStep ==
    (pc \in {"Initialized", "EstimatorsRun", "Combined"}
        /\ WellFormed(scenario_data) /\ pc' # pc)
    => \E i \in 1..(Len(PipelineOrder) - 1) :
           pc = PipelineOrder[i] /\ pc' = PipelineOrder[i + 1]

\* predict has returned a result with turnout, agreement, will_pass, reason and
\* the six breakdown entries
ReturnedComplete ==
    /\ pc = "Verdicted"
    /\ ReturnValue.predicted_turnout # Unbound
    /\ ReturnValue.predicted_agreement # Unbound
    /\ ReturnValue.will_pass \in BOOLEAN
    /\ DOMAIN ReturnValue.reason = {"template", "shown"}
    /\ AllSixRan

\* C12: predict is the linear pipeline Initialized -> EstimatorsRun -> Combined
\* -> Verdicted: turnout and agreement are combined only when all six
\* estimators have completed, the verdict exists only when turnout and agreement
\* both exist, a call on a well-formed scenario only ever moves to the next
\* stage, and every such call eventually returns a complete result.
C12_LinearPipeline ==
    /\ []((pc \in {"EstimatorsRun", "Combined", "Verdicted"}
              \/ predicted_turnout # Unbound \/ predicted_agreement # Unbound)
          => AllSixRan)
    /\ [](verdict # <<>> => (predicted_turnout # Unbound /\ predicted_agreement # Unbound))
    /\ [][LinearStep]_vars
    /\ ((pc = "Initialized" /\ WellFormed(scenario_data)) ~> ReturnedComplete)

C12_Witness ==
    /\ ReturnedComplete
    /\ WellFormed(scenario_data)
    /\ calls = 1

\* the scenarios of the any-order specification
OrderScenarios ==
    PipelineScenarios
    \cup { [b EXCEPT !.recall_target = t] :
               b \in {Baseline, Favourable, Unfavourable}, t \in Targets }

RequestAnyOrder == pc = "idle" /\ \E scenario \in OrderScenarios : Predict(scenario)

\* the call of the estimator name and the binding of its result
Analyze(name) ==
    CASE name = "psychological" -> AnalyzePsychological
      [] name = "media" -> AnalyzeMedia
      [] name = "social" -> AnalyzeSocial
      [] name = "climate" -> AnalyzeClimate
      [] name = "regional" -> AnalyzeRegional
      [] name = "sentiment" -> AnalyzeSentiment

\* the six calls evaluated in any order: any estimator that has not returned
\* yet may be the next one
RunInAnyOrder ==
    \E i \in 1..Len(EstimatorOrder) :
        /\ EstimatorOrder[i] \notin DOMAIN agent_results
        /\ Analyze(EstimatorOrder[i])

AnyOrderNext ==
    \/ RequestAnyOrder
    \/ RunInAnyOrder
    \/ CalculateTurnout
    \/ CalculateAgreement
    \/ DetermineRecallResult
    \/ Discard

\* predict with its six estimator calls fanned out
AnyOrderSpec == Init /\ [][AnyOrderNext]_vars

\* the estimators whose results enter the turnout
TurnoutEstimators == {"psychological", "media", "social", "climate", "regional"}

\* C13: whatever the order in which the estimators are evaluated on a
\* well-formed scenario, each of the Motivation, Media, Climate, Weather and
\* Regional results is the one the scenario alone determines, and so is the
\* combined turnout.
C13_OrderIndependent ==
    WellFormed(scenario_data)
        => /\ \A name \in TurnoutEstimators \cap DOMAIN agent_results :
                  agent_results[name] = ResultsOf(scenario_data)[name]
           /\ predicted_turnout # Unbound
                  => predicted_turnout = TurnoutOf(scenario_data)

\* the climate, regional and sentiment estimators have returned before the
\* first three of predict's order
C13_Witness ==
    /\ WellFormed(scenario_data)
    /\ scenario_data = Unfavourable
    /\ pc = "Initialized"
    /\ DOMAIN agent_results = {"climate", "regional", "sentiment"}
    /\ agent_results["regional"].adjustment_factor
           = ResultsOf(Unfavourable)["regional"].adjustment_factor

\* a step of predict itself: the call is on before the step and after it
StepOfPredict == pc # "idle" /\ pc' # "idle"

\* what a later call on the same agent has computed so far is what the first
\* call computed
SameAsFirstCall ==
    calls >= 2
        => /\ \A name \in TurnoutEstimators \cap DOMAIN agent_results :
                  agent_results[name] = first_return.agent_results[name]
           /\ predicted_turnout # Unbound
                  => predicted_turnout = first_return.predicted_turnout

\* C14: a later call of predict on the same agent computes the same
\* Motivation, Media, Climate, Weather and Regional results and the same
\* turnout as the agent's first call did (the x1.2 boost is applied once per
\* call), and no step of predict changes the scenario data it was given.
C14_NoStateBetweenCalls ==
    /\ []SameAsFirstCall
    /\ [][StepOfPredict => scenario_data' = scenario_data]_vars

\* a second call on a high-controversy target has boosted the youth group's
\* political interest 0.6 to 0.72, as the first call did
C14_Witness ==
    /\ calls = 2
    /\ "psychological" \in DOMAIN agent_results
    /\ AnyIn(ControversialNames, scenario_data["recall_target"])
    /\ agent_results["psychological"]["youth"].political_interest = 7200
    /\ first_return.agent_results["psychological"]["youth"].political_interest = 7200

\* the tiered penalties the weather estimator is specified to apply
ReferenceWeather(temperature, rainfall, weather_condition) ==
    LET temperature_penalty ==
            IF temperature > 35 THEN 1000
            ELSE IF temperature > 30 THEN 500
            ELSE IF temperature < 10 THEN 800
            ELSE 0
        rainfall_penalty ==
            IF rainfall > 15 THEN 2000
            ELSE IF rainfall > 5 THEN 1000
            ELSE 0
        condition_penalty ==
            IF weather_condition \in ExtremeConditions THEN 1500 ELSE 0
    IN  Max(Scale - temperature_penalty - rainfall_penalty - condition_penalty, 5000)

\* C15: the weather_coefficient the weather estimator returns is the reference
\* value of the tiered penalties (0.10 above 35 degrees, 0.05 in (30, 35], 0.08
\* below 10 degrees, 0.20 above rainfall 15, 0.10 in (5, 15], 0.15 for an
\* extreme label, floor 0.5) for every temperature, rainfall and label.
C15_WeatherIsTieredReference ==
    Ran("climate")
        => agent_results["climate"].weather_coefficient
               = ReferenceWeather(agent_results["climate"].temperature_impact,
                                  agent_results["climate"].rainfall_impact,
                                  agent_results["climate"].condition_impact)

\* the agreement rate computed from the age shares of age_structure
ReferenceAgreement(age_structure, sentiment, target) ==
    LET share(age_group) == age_structure[age_group] * (Scale \div 100)
        base_agreement ==
            Mul(share("youth"), Mul(sentiment.s1_youth_forum, 12000))
            + Mul(share("middle"), Mul(sentiment.s2_middle_forum, 10000))
            + Mul(share("elder"), Mul(sentiment.s3_elder_news, 8000))
        final_agreement ==
            Mul(base_agreement, _get_dynamic_political_intensity(target)) * 100
    IN  Min(Max(final_agreement, Pct(10)), Pct(90))

\* C16: predicted_agreement is the clamp to [10%, 90%] of (share_youth x 1.2 x
\* s1 + share_middle x 1.0 x s2 + share_elder x 0.8 x s3) x political_intensity,
\* with the age shares of the scenario.
C16_AgreementUsesScenarioShares ==
    AgreementComputed
        => predicted_agreement
               = ReferenceAgreement(scenario_data["age_structure"],
                                    agent_results["sentiment"],
                                    scenario_data["recall_target"])

\* share x voting_intention x media_coefficient x social_coefficient of one age
\* group, from the results bound in the current call
GroupTerm(age_group) ==
    Mul(Mul(Mul(scenario_data["age_structure"][age_group] * (Scale \div 100),
                agent_results["psychological"][age_group].voting_intention),
            agent_results["media"][age_group].media_coefficient),
        agent_results["social"][age_group].social_coefficient)

\* C17: predicted_turnout is max(raw x weather_coefficient x adjustment_factor x
\* political_intensity, 20%), raw being the sum over the scenario's age groups
\* of share x voting_intention x media_coefficient x social_coefficient and
\* political_intensity the lookup's value for recall_target.
C17_TurnoutIsFormula ==
    TurnoutComputed
        => LET raw == GroupTerm("youth") + GroupTerm("middle") + GroupTerm("elder")
               scaled ==
                   Mul(Mul(Mul(raw, agent_results["climate"].weather_coefficient),
                           agent_results["regional"].adjustment_factor),
                       _get_dynamic_political_intensity(scenario_data["recall_target"]))
                   * 100
           IN  /\ DOMAIN scenario_data["age_structure"] = {"youth", "middle", "elder"}
               /\ predicted_turnout = Max(scaled, Pct(20))

\* a turnout above both the 20% floor and 50%
C17_Witness ==
    /\ TurnoutComputed
    /\ scenario_data = HighIntensityScenario
    /\ predicted_turnout > Pct(50)

\* mobilization modifiers other draws of the sentiment estimator give
OtherModifiers == {Scale \div 2, Scale + 3000}

\* turnouts other weather, regional, motivation, media and climate
\* coefficients give
OtherTurnouts == {Pct(20), Pct(100)}

\* C18: with the sentiment estimator's s1, s2, s3 and the target as they are,
\* predicted_agreement is the value _calculate_agreement gives for any other
\* predicted_turnout (other weather, regional, motivation, media and climate
\* coefficients) and any other mobilization_modifier.
C18_AgreementIgnoresTurnoutSide ==
    AgreementComputed
        => \A turnout \in OtherTurnouts, modifier \in OtherModifiers :
               predicted_agreement
                   = _calculate_agreement(
                         turnout,
                         [agent_results["sentiment"] EXCEPT
                              !.mobilization_modifier = modifier,
                              !.mobilization_strength = modifier],
                         scenario_data["recall_target"])

\* an agreement strictly inside the clamp, with a modifier and a turnout that
\* differ from some of the alternatives
C18_Witness ==
    /\ AgreementComputed
    /\ predicted_agreement > Pct(10)
    /\ predicted_agreement < Pct(90)
    /\ \E turnout \in OtherTurnouts : turnout # predicted_turnout
    /\ \E modifier \in OtherModifiers :
           modifier # agent_results["sentiment"].mobilization_modifier

\* the person name of a target: the text before the parenthesis, without the
\* blank that ends it
PersonName(target) ==
    LET opens == {i \in 1..Len(target) : target[i] = "("}
        head == IF opens = {} THEN target
                ELSE SubSeq(target, 1, (CHOOSE i \in opens : \A j \in opens : i <= j) - 1)
    IN  IF Len(head) > 0 /\ head[Len(head)] = " "
        THEN SubSeq(head, 1, Len(head) - 1) ELSE head

\* the person names of the entries of intensity_map
TableNames == {PersonName(intensity_map[k][1]) : k \in 1..Len(intensity_map)}

\* C19: the intensity lookup gives the same multiplier to every target string
\* with the same person name, and gives 1.0 to a target whose person name is
\* not the name of any table entry, whatever its annotation.
C19_MatchesOnPersonName ==
    (direct.fn = "_get_dynamic_political_intensity" /\ direct.args[1] # None)
        => /\ \A other \in Targets :
                  PersonName(other) = PersonName(direct.args[1])
                      => _get_dynamic_political_intensity(other) = direct.ret
           /\ PersonName(direct.args[1]) \notin TableNames => direct.ret = Scale

\* the age-group keys of the scenario that base_params has no entry for
UnknownAgeGroups ==
    IF "age_structure" \in DOMAIN scenario_data
    THEN (DOMAIN scenario_data["age_structure"]) \ AgeGroups
    ELSE {}

\* C20: a call on a scenario whose age_structure has an unknown age-group key
\* does not raise: the motivation estimator returns a voting intention of 0 for
\* that group and the table's values for the known groups.
C20_UnknownAgeGroupGivesZero ==
    (RequiredFields \subseteq DOMAIN scenario_data /\ UnknownAgeGroups # {})
        => /\ pc # "raised"
           /\ Ran("psychological")
                  => \A age_group \in DOMAIN scenario_data["age_structure"] :
                         agent_results["psychological"][age_group].voting_intention
                             = IF age_group \in UnknownAgeGroups THEN 0
                               ELSE PsychologicalAnalyze(
                                        [g \in AgeGroups |-> 0],
                                        scenario_data["recall_target"])[age_group]
                                            .voting_intention

\* x is a fixed-point number in [0, 1]
InUnit(x) == 0 <= x /\ x <= Scale

\* voting_intention of age_group is the product of the three proxies bound
\* with it
IsProduct(age_group) ==
    LET r == agent_results["psychological"][age_group]
    IN  r.voting_intention
            = Mul(Mul(r.political_interest, r.political_efficacy), r.economic_motivation)

\* C21 as stated: every voting_intention is the unclamped product of the three
\* proxies, each proxy as used (political interest after the x1.2 boost) lies in
\* [0, 1], and so does voting_intention.
C21_ProxiesInUnitInterval ==
    Ran("psychological")
        => \A age_group \in DOMAIN agent_results["psychological"] :
               LET r == agent_results["psychological"][age_group]
               IN  /\ IsProduct(age_group)
                   /\ InUnit(r.political_interest)
                   /\ InUnit(r.political_efficacy)
                   /\ InUnit(r.economic_motivation)
                   /\ InUnit(r.voting_intention)

\* C21 amended: every voting_intention is the unclamped product of the three
\* proxies and lies in [0, 1]; political efficacy and economic motivation lie in
\* [0, 1], and political interest as used lies in [0, 1.08].
C21_IntentionInUnitInterval ==
    Ran("psychological")
        => \A age_group \in DOMAIN agent_results["psychological"] :
               LET r == agent_results["psychological"][age_group]
               IN  /\ IsProduct(age_group)
                   /\ 0 <= r.political_interest
                   /\ r.political_interest <= Mul(9000, 12000)
                   /\ InUnit(r.political_efficacy)
                   /\ InUnit(r.economic_motivation)
                   /\ InUnit(r.voting_intention)

\* the elder group of a high-controversy target: political interest 1.08,
\* voting intention 0.378
C21_Witness ==
    /\ Ran("psychological")
    /\ AnyIn(ControversialNames, scenario_data["recall_target"])
    /\ agent_results["psychological"]["elder"].political_interest = 10800
    /\ agent_results["psychological"]["elder"].voting_intention = 3780

\* the forum values the social estimator was called with
ForumValue(key, default) ==
    DictGet(DictGet(scenario_data, "forum_sentiment", NoResults), key, default)

\* the clamp of 0.7 + sentiment_score x heat_multiplier x pressure_factor x
\* sensitivity to [0.5, 1.5], with the heat and pressure of the scenario
ReferenceSocial(sentiment_score, sensitivity) ==
    LET heat_multiplier ==
            Min(DictGet(scenario_data, "discussion_heat", 70) * (Scale \div 100) + 8000,
                15000)
        pressure_factor ==
            Min(DictGet(scenario_data, "peer_pressure", 60) * (Scale \div 100) + 9000,
                13000)
        raw == 7000 + Mul(Mul(Mul(sentiment_score, heat_multiplier), pressure_factor),
                          sensitivity)
    IN  Min(Max(raw, 5000), 15000)

\* every age group's social_coefficient is ReferenceSocial of sentiment_score
SocialIsReference(sentiment_score) ==
    /\ agent_results["social"]["youth"].social_coefficient
           = ReferenceSocial(sentiment_score, 3000)
    /\ agent_results["social"]["middle"].social_coefficient
           = ReferenceSocial(sentiment_score, 2500)
    /\ agent_results["social"]["elder"].social_coefficient
           = ReferenceSocial(sentiment_score, 2000)

\* C22 as stated: for dcard_positive and ptt_positive given as ratios in
\* [0, 1], every age group's coefficient is the clamped 0.7 + sentiment_score x
\* heat_multiplier x pressure_factor x sensitivity with sentiment_score =
\* (dcard_positive + ptt_positive)/2 + 0.5.
C22_SocialFromRatios ==
    (Ran("social")
        /\ ForumValue("dcard_positive", 20) \in {0, 1}
        /\ ForumValue("ptt_positive", 30) \in {0, 1})
    => SocialIsReference((ForumValue("dcard_positive", 20) * Scale
                          + ForumValue("ptt_positive", 30) * Scale) \div 2 + 5000)

\* C22 amended: dcard_positive and ptt_positive are percentages, and
\* sentiment_score = (dcard_positive/100 + ptt_positive/100)/2 + 0.5; the rest
\* as stated.
C22_SocialFromPercentages ==
    Ran("social")
    => SocialIsReference((ForumValue("dcard_positive", 20) * (Scale \div 100)
                          + ForumValue("ptt_positive", 30) * (Scale \div 100)) \div 2
                         + 5000)

\* both forum values 100%, heat and pressure at their caps: the elder group
\* gets 0.7 + 1.5 x 1.5 x 1.3 x 0.2 = 1.285, the youth group is clamped to 1.5
C22_Witness ==
    /\ Ran("social")
    /\ ForumValue("dcard_positive", 20) = 100
    /\ ForumValue("ptt_positive", 30) = 100
    /\ agent_results["social"]["elder"].social_coefficient = 12850
    /\ agent_results["social"]["youth"].social_coefficient = 15000

\* the multiplier of the first key of region_factors that occurs in region, or
\* 1.0 if none does
FirstRegionMatch(region) ==
    LET hits == {k \in 1..Len(region_factors) : Contains(region, region_factors[k][1])}
    IN  IF hits = {} THEN Scale
        ELSE region_factors[CHOOSE k \in hits : \A j \in hits : k <= j][2]

\* C23: the regional estimator returns clamp(b x (0.9 + mobilization_capacity /
\* 100 x 0.2) x m, 0.95, 1.1), b being 1.10 for a historical turnout above 60,
\* 0.95 below 50 and 1.0 otherwise (60 and 50 included), and m the multiplier
\* of the first table key occurring in region, or 1.0.
C23_RegionalIsFormula ==
    Ran("regional")
        => LET historical_turnout == DictGet(scenario_data, "historical_turnout", 55)
               capacity == DictGet(scenario_data, "mobilization_capacity", 70)
               b == IF historical_turnout > 60 THEN 11000
                    ELSE IF historical_turnout < 50 THEN 9500
                    ELSE 10000
               m == FirstRegionMatch(DictGet(scenario_data, "region", <<>>))
               product == Mul(Mul(b, 9000 + Mul(capacity * (Scale \div 100), 2000)), m)
           IN  agent_results["regional"].adjustment_factor
                   = Min(Max(product, 9500), 11000)

\* a historical turnout of exactly 60 with capacity 50 gives b = 1.0 and, times
\* a region multiplier other than 1.0, a value strictly inside the clamp
C23_Witness ==
    /\ Ran("regional")
    /\ agent_results["regional"].historical_impact = 60
    /\ agent_results["regional"].mobilization_impact = 50
    /\ agent_results["regional"].region_multiplier = 10500
    /\ agent_results["regional"].adjustment_factor = 10500

\* the usage shares of the forums an age group's blend is weighted with
UsageShares(age_group) ==
    forum_usage[age_group][1][2] + forum_usage[age_group][2][2]
        + forum_usage[age_group][3][2]

\* 0.4 x s1 + 0.35 x s2 + 0.25 x s3 of the sentiment result
WeightedSentiment ==
    Mul(agent_results["sentiment"].s1_youth_forum, 4000)
    + Mul(agent_results["sentiment"].s2_middle_forum, 3500)
    + Mul(agent_results["sentiment"].s3_elder_news, 2500)

\* C24: whatever the random module draws, s1_youth_forum, s2_middle_forum and
\* s3_elder_news are in [0, 1], the usage shares of the youth and of the middle
\* blend sum to 1, and mobilization_modifier lies between 1.1 and 1.3 times
\* 0.4 x s1 + 0.35 x s2 + 0.25 x s3.
C24_SentimentInRange ==
    Ran("sentiment")
        => /\ InUnit(agent_results["sentiment"].s1_youth_forum)
           /\ InUnit(agent_results["sentiment"].s2_middle_forum)
           /\ InUnit(agent_results["sentiment"].s3_elder_news)
           /\ UsageShares("youth") = Scale
           /\ UsageShares("middle") = Scale
           /\ Mul(WeightedSentiment, 11000)
                  <= agent_results["sentiment"].mobilization_modifier
           /\ agent_results["sentiment"].mobilization_modifier
                  <= Mul(WeightedSentiment, 13000)

\* a run whose draws are all at the upper end: the modifier is 1.3 times the
\* weighted sentiment
C24_Witness ==
    /\ Ran("sentiment")
    /\ agent_results["sentiment"].s1_youth_forum > 6000
    /\ agent_results["sentiment"].s3_elder_news = 6000
    /\ agent_results["sentiment"].mobilization_modifier = Mul(WeightedSentiment, 13000)

\* the reason's message speaks of the turnout threshold
NamesTurnout(reason) ==
    reason.template \in {"turnout_below_threshold", "turnout_met_and_agreement_majority"}

\* the reason's message speaks of the agreement rate
NamesAgreement(reason) ==
    reason.template \in {"agreement_not_majority", "turnout_met_and_agreement_majority"}

\* C25: a verdict with will_pass false has a reason that names every condition
\* that failed: the turnout threshold whenever turnout is below 25%, and the
\* agreement condition whenever agreement is not above 50%, also when both
\* fail.
C25_ReasonNamesEveryFailure ==
    (direct.fn = "_determine_recall_result" /\ direct.ret[1] = FALSE)
        => /\ direct.args[1] < Pct(25) => NamesTurnout(direct.ret[2])
           /\ direct.args[2] <= Pct(50) => NamesAgreement(direct.ret[2])

\* the scenario's age shares are the ones _calculate_unified_prediction is
\* run on (30%, 45%, 25%)
BulkAgeShares ==
    /\ "age_structure" \in DOMAIN scenario_data
    /\ scenario_data.age_structure = [youth |-> 30, middle |-> 45, elder |-> 25]

\* what _calculate_unified_prediction computes from the results predict returned
UnifiedOfResults ==
    UnifiedCalculation(agent_results["psychological"], agent_results["media"],
                       agent_results["social"], agent_results["climate"],
                       agent_results["regional"], agent_results["sentiment"])

\* C26: for the same estimator outputs, _calculate_unified_prediction and the
\* quick prediction of show_main_dashboard produce the same turnout, the same
\* agreement and the same will_pass.
C26_BulkSameAsQuick ==
    (pc = "Verdicted" /\ BulkAgeShares) =>
        UnifiedOfResults = QuickCalculation(agent_results)

-----------------------------------------------------------------------------
(* EnhancedDashboardApp: prediction_cache, bulk_prediction_done and the     *)
(* handlers that read and write them                                         *)

\* the first rows of july_26_targets: <<name, region>>
july_26_targets ==
    << <<<<"wang", "hong", "wei_rose">>,
         <<"tai", "bei", "shi", "di_ordinal", "3", "xuan", "qu">>>>,
       <<<<"li_surname", "yan", "xiu">>,
         <<"tai", "bei", "shi", "di_ordinal", "4", "xuan", "qu">>>>,
       <<LuoZhiQiang,
         <<"tai", "bei", "shi", "di_ordinal", "6", "xuan", "qu">>>>,
       <<<<"xu", "qiao", "xin">>,
         <<"tai", "bei", "shi", "di_ordinal", "7", "xuan", "qu">>>>,
       <<<<"lai", "shi_scholar", "bao">>,
         <<"tai", "bei", "shi", "di_ordinal", "8", "xuan", "qu">>>> >>

\* how many rows of july_26_targets the bulk loop visits
MaxBulkTargets == 3

BulkTargets == SubSeq(july_26_targets, 1, Min(MaxBulkTargets, Len(july_26_targets)))

\* the names the two counters look for in a cache key
target_names ==
    << <<"wang", "hong", "wei_rose">>, <<"li_surname", "yan", "xiu">>, LuoZhiQiang,
       <<"xu", "qiao", "xin">>, <<"lai", "shi_scholar", "bao">> >>

\* f"{name} ({region})"
TargetKey(name, region) == name \o <<" ", "(">> \o region \o <<")">>

BulkKeys == {TargetKey(BulkTargets[i][1], BulkTargets[i][2]) : i \in 1..Len(BulkTargets)}

\* a run of the random module in which predicted_agreement comes out at 50.0
\* for a target of intensity 1.0
BoundaryTape ==
    [forum |-> <<6700, 6000, 5000, 4400, 3000, 4700>>,
     news |-> << <<600, 50>>, <<-300, 80>>, <<600, 50>>, <<-300, 80>>, <<-500, 50>> >>,
     factor |-> 12000]

HighTape ==
    [forum |-> <<7000, 7000, 7000, 7000, 7000, 7000>>,
     news |-> << <<1000, 80>>, <<1000, 80>>, <<1000, 80>>, <<1000, 80>>, <<1000, 80>> >>,
     factor |-> 13000]

\* the runs of the random module the dashboard's predictions are made with
DashboardTapes == {HighTape, BoundaryTape}

\* how one calculation inside a try block ends: with the run of the random
\* module it drew from, or with an exception raised by one of the agents
Outcomes ==
    {[exception |-> "none", rnd |-> rnd] : rnd \in DashboardTapes}
    \cup {[exception |-> "Exception"]}

\* the entry both except branches leave for a target whose calculation raised
DefaultEntry ==
    [turnout_prediction |-> 3000, agreement_rate |-> 4500, will_pass |-> FALSE,
     is_bulk_prediction |-> TRUE]

\* _calculate_unified_prediction; a raised exception is caught inside and the
\* default result is returned
_calculate_unified_prediction(recall_target, region, outcome) ==
    IF outcome.exception # "none"
    THEN [turnout_rate |-> 3000, agreement_rate |-> 4500, will_pass |-> FALSE]
    ELSE UnifiedCalculation(PsychologicalAnalyze(DashboardShares, recall_target),
                            MediaAnalyze(DashboardShares, recall_target),
                            SocialAnalyze(NoResults, 70, 60),
                            ClimateAnalyze(25, 0, "qingtian"),
                            RegionalAnalyze(region, 55, 70),
                            ForumSentimentAnalyze([positive |-> 20], [positive |-> 30], 80,
                                                  outcome.rnd))

\* what _calculate_unified_prediction returns for row k of the bulk list when
\* its calculation ends as outcome
BulkResults ==
    [k \in 1..Len(BulkTargets) |->
        [outcome \in Outcomes |->
            _calculate_unified_prediction(TargetKey(BulkTargets[k][1], BulkTargets[k][2]),
                                          BulkTargets[k][2], outcome)]]

RECURSIVE BulkLoop(_, _, _)
\* the loop of _perform_bulk_prediction from row k on; outcomes[k] is how the
\* calculation of row k ends
BulkLoop(prediction_cache, k, outcomes) ==
    IF k > Len(BulkTargets) THEN prediction_cache
    ELSE LET target_key == TargetKey(BulkTargets[k][1], BulkTargets[k][2])
             prediction_results == BulkResults[k][outcomes[k]]
         IN  IF target_key \in DOMAIN prediction_cache
             THEN BulkLoop(prediction_cache, k + 1, outcomes)
             ELSE BulkLoop(
                      Put(prediction_cache, target_key,
                          [turnout_prediction |-> prediction_results.turnout_rate,
                           agreement_rate |-> prediction_results.agreement_rate,
                           will_pass |-> prediction_results.will_pass,
                           is_bulk_prediction |-> TRUE]),
                      k + 1, outcomes)

\* _perform_bulk_prediction with every row calculated and stored, an entry that
\* is already there or not
BulkOverwriting(prediction_cache, outcomes) ==
    BulkLoop(Without(prediction_cache, BulkKeys), 1, outcomes)

\* _perform_bulk_prediction: the prediction_cache it leaves
_perform_bulk_prediction(prediction_cache, outcomes) ==
    BulkLoop(prediction_cache, 1, outcomes)

\* the rows whose calculation raised during a bulk run on prediction_cache
RaisedKeys(prediction_cache, outcomes) ==
    {TargetKey(BulkTargets[k][1], BulkTargets[k][2]) : k \in
        {i \in 1..Len(BulkTargets) :
            /\ TargetKey(BulkTargets[i][1], BulkTargets[i][2]) \notin DOMAIN prediction_cache
            /\ outcomes[i].exception # "none"}}

\* the keys both counters count: a 7/26 name in the key,
\* turnout >= 0.25 and agreement >= 0.50
CountedAsSuccess(prediction_cache) ==
    {saved_key \in DOMAIN prediction_cache :
        /\ AnyIn(target_names, saved_key)
        /\ DictGet(prediction_cache[saved_key], "turnout_prediction", 0) >= 2500
        /\ DictGet(prediction_cache[saved_key], "agreement_rate", 0) >= 5000}

\* the scenarios _prepare_scenario_data builds for a target: age shares
\* 30/45/25, the target and the region as given, the figures of its lookup
\* tables drawn from the corners of the input space
PreparedScenarios(recall_target, region) ==
    {[b EXCEPT !.recall_target = recall_target, !.region = region]
         @@ [dcard_sentiment |-> [positive |-> b.forum_sentiment.dcard_positive],
             ptt_sentiment |-> [positive |-> b.forum_sentiment.ptt_positive],
             mobilization_strength |-> Min(b.mobilization_capacity + 7, 98)] :
        b \in {Baseline, Favourable}}

\* what one call of MasterAnalysisAgent.predict returns for scenario when the
\* random module runs as rnd
PredictOf(scenario, rnd) ==
    LET turnout == TurnoutOf(scenario)
        agreement == _calculate_agreement(turnout, SentimentOf(scenario, rnd),
                                          scenario["recall_target"])
    IN  [predicted_turnout |-> turnout,
         predicted_agreement |-> agreement,
         will_pass |-> _determine_recall_result(turnout, agreement)[1]]

\* the targets and regions the selectbox offers
Selections ==
    { <<TargetKey(july_26_targets[1][1], july_26_targets[1][2]), <<"tai", "bei", "shi">>>>,
      <<<<"han", "guo", "yu", " ", "(", "2", "0", "2", "0", "nian", "ba", "mian",
          "cheng", "gong", ")">>, <<"gao", "xiong", "shi">>>> }

\* what predict returns for each selection, prepared scenario and run of the
\* random module
PredictResults ==
    [selection \in Selections |->
        [scenario \in PreparedScenarios(selection[1], selection[2]) |->
            [rnd \in DashboardTapes |-> PredictOf(scenario, rnd)]]]

\* how the rows of a bulk run can end
BulkOutcomes == [1..Len(BulkTargets) -> Outcomes]

\* st.session_state.prediction_cache, {} where the key is not set
Cache == DictGet(session_state, "prediction_cache", NoResults)

\* bulk_prediction_done is set and true
BulkDone == DictGet(session_state, "bulk_prediction_done", FALSE)

\* the recalculate button of show_main_dashboard
RecalculateButton ==
    /\ session_state' = [prediction_cache |-> NoResults, bulk_prediction_done |-> FALSE]
    /\ returned' = [handler |-> "recalculate"]
    /\ UNCHANGED engine_vars

\* a counter returns: prediction_cache is the cache it counted in, run whether
\* it ran the bulk prediction first, raised the rows whose calculation raised
CounterReturns(handler, prediction_cache, run, raised) ==
    /\ session_state' = [prediction_cache |-> prediction_cache,
                         bulk_prediction_done |-> TRUE]
    /\ returned' = [handler |-> handler,
                    success_count |-> Cardinality(CountedAsSuccess(prediction_cache)),
                    passed |-> CountedAsSuccess(prediction_cache),
                    bulk_ran |-> run,
                    first_use |-> session_state = NoResults,
                    after_reset |-> /\ "bulk_prediction_done" \in DOMAIN session_state
                                    /\ ~session_state["bulk_prediction_done"],
                    raised |-> raised]
    /\ UNCHANGED engine_vars

\* _calculate_predicted_success_count: an unfinished bulk prediction is run on
\* an emptied cache first
CalculatePredictedSuccessCount ==
    \/ /\ BulkDone
       /\ CounterReturns("_calculate_predicted_success_count", Cache, FALSE, {})
    \/ /\ ~BulkDone
       /\ \E outcomes \in BulkOutcomes :
              CounterReturns("_calculate_predicted_success_count",
                             _perform_bulk_prediction(NoResults, outcomes), TRUE,
                             RaisedKeys(NoResults, outcomes))

\* _get_predicted_success_details: an unfinished bulk prediction is run on the
\* cache as it is
GetPredictedSuccessDetails ==
    \/ /\ BulkDone
       /\ CounterReturns("_get_predicted_success_details", Cache, FALSE, {})
    \/ /\ ~BulkDone
       /\ \E outcomes \in BulkOutcomes :
              CounterReturns("_get_predicted_success_details",
                             _perform_bulk_prediction(Cache, outcomes), TRUE,
                             RaisedKeys(Cache, outcomes))

\* _display_unified_prediction_results: one predict call for the selected
\* target, its result stored under the target
DisplayUnifiedPredictionResults ==
    \E selection \in Selections, rnd \in DashboardTapes :
        \E scenario_data0 \in PreparedScenarios(selection[1], selection[2]) :
            LET prediction_results == PredictResults[selection][scenario_data0][rnd]
                prediction_data ==
                    [turnout_prediction |-> prediction_results.predicted_turnout \div 100,
                     agreement_rate |-> prediction_results.predicted_agreement \div 100,
                     will_pass |-> prediction_results.will_pass,
                     is_bulk_prediction |-> FALSE]
            IN  /\ session_state' =
                       Put(session_state, "prediction_cache",
                           Put(Cache, selection[1], prediction_data))
                /\ returned' = [handler |-> "_display_unified_prediction_results",
                                recall_target |-> selection[1]]
                /\ UNCHANGED engine_vars

\* FermiAgent.analyze, which MasterAnalysisAgent inherits and does not override
FermiAgentAnalyze(data) == [exception |-> "NotImplementedError"]

\* the fixed result of the except branch of _generate_fermi_prediction, the
\* percentages in tenths
FermiFallback == [turnout |-> 350, success_rate |-> 550, confidence |-> 75]

\* _generate_fermi_prediction
_generate_fermi_prediction(scenario_data0) ==
    LET fermi_result == FermiAgentAnalyze(scenario_data0)
    IN  IF "exception" \in DOMAIN fermi_result
        THEN FermiFallback
        ELSE [turnout |-> Format1f(DictGet(fermi_result, "turnout_prediction", 3500) * 100),
              success_rate |-> Format1f(DictGet(fermi_result, "agreement_rate", 5500) * 100),
              confidence |-> DictGet(fermi_result, "confidence", 7500) \div 100]

GenerateFermiPrediction ==
    \E selection \in Selections :
        \E scenario_data0 \in PreparedScenarios(selection[1], selection[2]) :
            /\ returned' = [handler |-> "_generate_fermi_prediction",
                            scenario_data |-> scenario_data0,
                            result |-> _generate_fermi_prediction(scenario_data0)]
            /\ UNCHANGED <<session_state, engine_vars>>

DashboardNext ==
    \/ RecalculateButton
    \/ CalculatePredictedSuccessCount
    \/ GetPredictedSuccessDetails
    \/ DisplayUnifiedPredictionResults
    \/ GenerateFermiPrediction

DashboardSpec == Init /\ [][DashboardNext]_vars

\* one of the two counters has returned
CounterReturned ==
    returned.handler \in {"_calculate_predicted_success_count",
                          "_get_predicted_success_details"}

\* C29: when a counter has returned, every prediction_cache entry it counted as
\* a predicted success has will_pass = true in the cache.
C29_CountedHaveWillPass ==
    CounterReturned => \A saved_key \in returned.passed : Cache[saved_key].will_pass

\* C27: _generate_fermi_prediction returns the multi-estimator model's
\* prediction for the target and region: when predict does not fail on the
\* prepared scenario, the turnout and success rate returned are the ones of a
\* run of predict on it, and not the fixed fallback.
C27_FermiReturnsModelPrediction ==
    (returned.handler = "_generate_fermi_prediction" /\ WellFormed(returned.scenario_data))
        => /\ \E rnd \in DashboardTapes :
                  LET prediction == PredictOf(returned.scenario_data, rnd)
                  IN  /\ returned.result.turnout = Format1f(prediction.predicted_turnout)
                      /\ returned.result.success_rate
                             = Format1f(prediction.predicted_agreement)
           /\ returned.result # FermiFallback

CountReturned == returned.handler = "_calculate_predicted_success_count"

\* on return of _calculate_predicted_success_count the flag is set and true,
\* every bulk target has an entry, and a target whose calculation raised has
\* the default entry, with will_pass = false
DoneOnReturn ==
    CountReturned =>
        /\ "bulk_prediction_done" \in DOMAIN session_state
        /\ session_state["bulk_prediction_done"]
        /\ BulkKeys \subseteq DOMAIN Cache
        /\ \A target_key \in returned.raised :
               Cache[target_key] = DefaultEntry /\ ~Cache[target_key].will_pass

\* a step in which a counter ran the bulk prediction on the cache as it was
\* leaves every entry of that cache as it was
BulkKeepsEntries ==
    (returned'.handler = "_get_predicted_success_details" /\ returned'.bulk_ran)
        => \A saved_key \in DOMAIN Cache : Cache'[saved_key] = Cache[saved_key]

\* C30: whenever _calculate_predicted_success_count returns,
\* bulk_prediction_done is true and prediction_cache holds an entry for each
\* bulk target, a default entry with will_pass = false for a target whose
\* calculation raised; and a bulk run never overwrites an entry that is
\* already in the cache.
C30_BulkDoneOnReturn == []DoneOnReturn /\ [][BulkKeepsEntries]_vars

\* the count has returned after the recalculate button reset the cache and the
\* flag, and the calculation of a target raised during the bulk run
C30_Witness ==
    /\ CountReturned
    /\ returned.bulk_ran
    /\ returned.after_reset
    /\ returned.raised # {}
    /\ \E target_key \in BulkKeys \ returned.raised : Cache[target_key] # DefaultEntry

\* scenarios that differ from scenario in forum_sentiment, dcard_sentiment,
\* ptt_sentiment or mobilization_strength only
SentimentVariants(scenario) ==
    { [k \in (DOMAIN scenario) \cup (DOMAIN changed) |->
           IF k \in DOMAIN changed THEN changed[k] ELSE scenario[k]] :
        changed \in
            { [forum_sentiment |-> [dcard_positive |-> 100, ptt_positive |-> 0]],
              [dcard_sentiment |-> [positive |-> 95], ptt_sentiment |-> [positive |-> 5]],
              [mobilization_strength |-> 10] } }

\* what predict can return as predicted_agreement and as the sentiment
\* breakdown for scenario, one pair per run of the random module
AgreementAndSentimentOf(scenario) ==
    LET turnout == TurnoutOf(scenario)
    IN  { LET sentiment == SentimentOf(scenario, rnd)
          IN  [predicted_agreement |->
                   _calculate_agreement(turnout, sentiment, scenario["recall_target"]),
               sentiment |-> sentiment] : rnd \in RandomTapes }

\* C28: the predicted_agreement and the sentiment breakdown predict returned
\* are among the ones it can return for any scenario that differs in the
\* sentiment inputs only, and the two sets of possible values are identical.
C28_AgreementIgnoresSentimentInputs ==
    (pc = "Verdicted" /\ calls = 1 /\ WellFormed(scenario_data))
        => LET possible == AgreementAndSentimentOf(scenario_data)
           IN  /\ [predicted_agreement |-> predicted_agreement,
                   sentiment |-> agent_results["sentiment"]] \in possible
               /\ \A other \in SentimentVariants(scenario_data) :
                      AgreementAndSentimentOf(other) = possible

\* predict has returned for a scenario whose sentiment arguments are set
C28_Witness ==
    /\ pc = "Verdicted"
    /\ scenario_data \in SentimentInputScenarios
    /\ scenario_data["dcard_sentiment"].positive = 80
    /\ predicted_agreement \in Pct(10)..Pct(90)

====
